---- MODULE Spec2Model ----
(***************************************************************************)
(* Kitchen Sync: the schema-match engine (schema_functions.cpp) over the   *)
(* canonical schema model (schema.h).  check_schema_match is modelled as   *)
(* the walk the code performs: sort both table lists, walk them in         *)
(* lockstep skipping filtered tables, and for every matched pair walk the  *)
(* columns, compare the primary key and walk the sorted keys.  The first   *)
(* discrepancy throws schema_mismatch with its message.                    *)
(***************************************************************************)
EXTENDS Integers, Sequences, FiniteSets, TLC

VARIABLES
    from_database,   \* check_schema_match argument: the source's Database
    to_database,     \* check_schema_match argument: the destination's Database
    ignore_tables,   \* check_schema_match argument: set<string>
    only_tables,     \* check_schema_match argument: set<string>
    from_tables,     \* check_tables_match: by-value copy of from_database.tables, sorted
    to_tables,       \* check_tables_match: by-value copy of to_database.tables, sorted
    from_table,      \* check_tables_match: iterator into from_tables (Len+1 is end())
    to_table,        \* check_tables_match: iterator into to_tables
    from_column,     \* check_columns_match: iterator into the from table's columns
    to_column,       \* check_columns_match: iterator into the to table's columns
    from_keys,       \* check_keys_match: by-value copy of the from table's keys, sorted
    to_keys,         \* check_keys_match: by-value copy of the to table's keys, sorted
    from_key,        \* check_keys_match: iterator into from_keys
    to_key,          \* check_keys_match: iterator into to_keys
    pc,              \* the statement check_schema_match (or sync_to) is at
    mismatch,        \* what() of the schema_mismatch thrown, "" while none is
    stream,          \* sync_to: the values the peer puts on STDIN_FILENO, in order
    stream_pos,      \* sync_to: how many of them read_and_unpack has consumed
    cout,            \* sync_to: the Commands written to standard output, in order
    protocol,        \* sync_to: int protocol
    client,          \* sync_to: what client.database_schema() returns
    closed,          \* sync_to: the file descriptors closed
    pg_pc,           \* PostgreSQLClient: the statement the running operation is at
    pg_input,        \* PostgreSQLClient: the argument of the running operation
    database,        \* PostgreSQLClient: the Database an operation works on
    pg_table,        \* PostgreSQLClient: the Table a row lister fills
    rows,            \* PostgreSQLClient: the rows of the query still to be handled
    executed,        \* PostgreSQLClient: the statements given to PQexec, in order
    result,          \* PostgreSQLClient: the string the operation returned
    pg_error,        \* PostgreSQLClient: what() of the runtime_error thrown, "" while none is
    type_map,        \* PostgreSQLClient: TypeMap type_map
    res,             \* query(): the PostgreSQLRes it holds, NoRes while none is open
    row_number,      \* query(): the row the row handler is given next
    column_number,   \* pack_row_into: the column packed next
    packer,          \* the row handler's Packer: what was packed into it, in order
    collected,       \* whether a type-map query of populate_database_schema has completed
    populated        \* for each populate_conversions() on res: `collected` at that time

vars == <<from_database, to_database, ignore_tables, only_tables,
          from_tables, to_tables, from_table, to_table,
          from_column, to_column, from_keys, to_keys, from_key, to_key,
          pc, mismatch,
          stream, stream_pos, cout, protocol, client, closed,
          pg_pc, pg_input, database, pg_table, rows, executed, result, pg_error,
          type_map, res, row_number, column_number, packer, collected, populated>>

\* the state of sync_to outside check_schema_match, and of the PostgreSQL adapter
endpointVars == <<stream, stream_pos, cout, protocol, client, closed>>
adapterVars == <<pg_pc, pg_input, database, pg_table, rows, executed, result, pg_error>>
resVars == <<type_map, res, row_number, column_number, packer, collected, populated>>

(***************************************************************************)
(* Bounds of the model.                                                    *)
(***************************************************************************)
MaxTables == 2      \* tables per database
MaxFilter == 1      \* names per filter set (ignore_tables, only_tables)
MaxColumns == 2     \* columns per table
MaxKeys == 2        \* keys per table
MaxStatements == 4  \* statements given to PQexec before no further operation is called

(***************************************************************************)
(* Strings.  Names are one-character strings; std::string's operator< on   *)
(* them is the order of their characters, listed here in ASCII order.      *)
(***************************************************************************)
Characters == <<"T", "a", "b", "c", "k", "l", "m", "x", "y", "z">>

CharCode(s) == CHOOSE i \in 1..Len(Characters) : Characters[i] = s

string_less(a, b) == CharCode(a) < CharCode(b)

(***************************************************************************)
(* schema.h: the canonical schema model.                                   *)
(***************************************************************************)
ColumnTypes == {"BLOB", "TEXT", "VARCHAR", "CHAR", "JSON", "UUID", "BOOL", "INT",
                "INT UNSIGNED", "REAL", "DECIMAL", "DATE", "TIME", "DATETIME",
                "SPATIAL", "ENUM", "UNKNOWN"}

DefaultType == {"no_default", "sequence", "default_value", "default_expression"}

KeyType == {"unique_key", "standard_key", "spatial_key"}

\* the enumerators' values, which Key::operator< compares
KeyTypeValue(key_type) ==
    CASE key_type = "unique_key" -> 0
      [] key_type = "standard_key" -> 1
      [] key_type = "spatial_key" -> 2

PrimaryKeyType == {"no_available_key", "explicit_primary_key", "suitable_unique_key"}

\* Column(name, nullable, default_type, default_value, column_type, size, ...)
\* with the constructor's defaults for what is not given
Column(name, column_type, size) ==
    [name |-> name, nullable |-> TRUE, column_type |-> column_type, size |-> size,
     scale |-> 0, default_type |-> "no_default", default_value |-> "",
     flags |-> {}, type_restriction |-> "", reference_system |-> "",
     enumeration_values |-> <<>>, db_type_def |-> ""]

\* Column::operator==: db_type_def is not compared
ColumnEqual(a, b) ==
    /\ a.name = b.name
    /\ a.nullable = b.nullable
    /\ a.column_type = b.column_type
    /\ a.size = b.size
    /\ a.scale = b.scale
    /\ a.default_type = b.default_type
    /\ a.default_value = b.default_value
    /\ a.flags = b.flags
    /\ a.type_restriction = b.type_restriction
    /\ a.reference_system = b.reference_system
    /\ a.enumeration_values = b.enumeration_values

\* vector<Column>::operator==
ColumnsEqual(a, b) ==
    /\ Len(a) = Len(b)
    /\ \A i \in 1..Len(a) : ColumnEqual(a[i], b[i])

Key(name, key_type, columns) ==
    [name |-> name, key_type |-> key_type, columns |-> columns]

unique(key) == key.key_type = "unique_key"

\* Key::operator<
KeyLess(a, b) ==
    IF a.key_type # b.key_type
    THEN KeyTypeValue(a.key_type) < KeyTypeValue(b.key_type)
    ELSE string_less(a.name, b.name)

\* Key::operator==
KeyEqual(a, b) ==
    a.name = b.name /\ a.key_type = b.key_type /\ a.columns = b.columns

Table(name, columns, primary_key_columns, primary_key_type, keys) ==
    [name |-> name, columns |-> columns,
     primary_key_columns |-> primary_key_columns,
     primary_key_type |-> primary_key_type, keys |-> keys]

\* Table::operator<
TableLess(a, b) == string_less(a.name, b.name)

\* Table::same_primary_key_as
same_primary_key_as(a, b) ==
    LET this_explicit_columns ==
            IF a.primary_key_type = "explicit_primary_key"
            THEN Len(a.primary_key_columns) ELSE 0
        that_explicit_columns ==
            IF b.primary_key_type = "explicit_primary_key"
            THEN Len(b.primary_key_columns) ELSE 0
    IN  /\ this_explicit_columns = that_explicit_columns
        /\ \A i \in 1..this_explicit_columns :
               a.primary_key_columns[i] = b.primary_key_columns[i]

\* Table::operator==
TableEqual(a, b) ==
    /\ a.name = b.name
    /\ ColumnsEqual(a.columns, b.columns)
    /\ same_primary_key_as(a, b)
    /\ Len(a.keys) = Len(b.keys)
    /\ \A i \in 1..Len(a.keys) : KeyEqual(a.keys[i], b.keys[i])

Database(tables) == [tables |-> tables]

(***************************************************************************)
(* std::sort with Table::operator< and Key::operator<.  The model's lists  *)
(* hold no two elements that compare equivalent, so the sorted order is    *)
(* unique; it is computed by insertion.                                    *)
(***************************************************************************)
RECURSIVE InsertTable(_, _)
InsertTable(sorted, table) ==
    IF sorted = <<>> THEN <<table>>
    ELSE IF TableLess(table, Head(sorted)) THEN <<table>> \o sorted
    ELSE <<Head(sorted)>> \o InsertTable(Tail(sorted), table)

RECURSIVE SortByTableLess(_)
SortByTableLess(tables) ==
    IF tables = <<>> THEN <<>>
    ELSE InsertTable(SortByTableLess(Tail(tables)), Head(tables))

\* mutant of sort_tables: the copy is walked in the order given
sort_tables_unsorted(tables) == tables

sort_tables(tables) == SortByTableLess(tables)

RECURSIVE InsertKey(_, _)
InsertKey(sorted, key) ==
    IF sorted = <<>> THEN <<key>>
    ELSE IF KeyLess(key, Head(sorted)) THEN <<key>> \o sorted
    ELSE <<Head(sorted)>> \o InsertKey(Tail(sorted), key)

RECURSIVE SortByKeyLess(_)
SortByKeyLess(keys) ==
    IF keys = <<>> THEN <<>>
    ELSE InsertKey(SortByKeyLess(Tail(keys)), Head(keys))

sort_keys(keys) == SortByKeyLess(keys)

(***************************************************************************)
(* sql_functions.h: columns_list, the parenthesised list of the names of   *)
(* the columns the (0-based) indices select.                               *)
(***************************************************************************)
RECURSIVE JoinNames(_, _)
JoinNames(columns, column_indices) ==
    IF column_indices = <<>> THEN ""
    ELSE IF Len(column_indices) = 1 THEN columns[column_indices[1] + 1].name
    ELSE columns[column_indices[1] + 1].name \o ", "
             \o JoinNames(columns, Tail(column_indices))

columns_list(columns, column_indices) ==
    "(" \o JoinNames(columns, column_indices) \o ")"

(***************************************************************************)
(* schema_functions.cpp.  Every check yields the message of the            *)
(* schema_mismatch it throws, or NoMismatch when it returns.               *)
(***************************************************************************)
NoMismatch == ""

\* find_if(first, end, name_is(name)): the first position at or after
\* `first` holding that name, Len + 1 (end) when there is none
find_if(sequence, first, name) ==
    IF \E i \in first..Len(sequence) : sequence[i].name = name
    THEN CHOOSE i \in first..Len(sequence) :
             /\ sequence[i].name = name
             /\ \A j \in first..(i - 1) : sequence[j].name # name
    ELSE Len(sequence) + 1

\* mutant of check_column_match: the columns are compared with
\* Column::operator==
check_column_match_strict(table, from_col, to_col) ==
    IF ~ColumnEqual(from_col, to_col)
    THEN "Mismatching column " \o from_col.name \o " on table " \o table.name
    ELSE NoMismatch

\* mutant of check_column_match: the db_type_def strings of two columns of
\* unknown type are compared
check_column_match_unknown(table, from_col, to_col) ==
    IF /\ from_col.column_type = "UNKNOWN"
       /\ to_col.column_type = "UNKNOWN"
       /\ from_col.db_type_def # to_col.db_type_def
    THEN "Mismatching column " \o from_col.name \o " on table " \o table.name
    ELSE NoMismatch

\* check_column_match: its body is empty
check_column_match(table, from_col, to_col) == NoMismatch

\* mutant of columns_iteration: a matched to column is not stepped over
columns_iteration_no_advance(table, from_columns, to_columns, from_col, to_col) ==
    IF to_col # Len(to_columns) + 1
       /\ to_columns[to_col].name = from_columns[from_col].name
    THEN [mismatch |-> check_column_match(table, from_columns[from_col], to_columns[to_col]),
          to_column |-> to_col]
    ELSE IF find_if(to_columns, to_col, from_columns[from_col].name)
                = Len(to_columns) + 1
    THEN [mismatch |-> "Missing column " \o from_columns[from_col].name
                           \o " on table " \o table.name,
          to_column |-> to_col]
    ELSE IF find_if(from_columns, from_col, to_columns[to_col].name)
                = Len(from_columns) + 1
    THEN [mismatch |-> "Extra column " \o to_columns[to_col].name
                           \o " on table " \o table.name,
          to_column |-> to_col]
    ELSE [mismatch |-> "Misordered column " \o from_columns[from_col].name
                           \o " on table " \o table.name \o ", should have "
                           \o to_columns[to_col].name \o " first",
          to_column |-> to_col]

\* mutant of columns_iteration: the misordered message names the two columns
\* the other way round
columns_iteration_names_swapped(table, from_columns, to_columns, from_col, to_col) ==
    IF to_col # Len(to_columns) + 1
       /\ to_columns[to_col].name = from_columns[from_col].name
    THEN [mismatch |-> check_column_match(table, from_columns[from_col], to_columns[to_col]),
          to_column |-> to_col + 1]
    ELSE IF find_if(to_columns, to_col, from_columns[from_col].name)
                = Len(to_columns) + 1
    THEN [mismatch |-> "Missing column " \o from_columns[from_col].name
                           \o " on table " \o table.name,
          to_column |-> to_col]
    ELSE IF find_if(from_columns, from_col, to_columns[to_col].name)
                = Len(from_columns) + 1
    THEN [mismatch |-> "Extra column " \o to_columns[to_col].name
                           \o " on table " \o table.name,
          to_column |-> to_col]
    ELSE [mismatch |-> "Misordered column " \o to_columns[to_col].name
                           \o " on table " \o table.name \o ", should have "
                           \o from_columns[from_col].name \o " first",
          to_column |-> to_col]

\* mutant of columns_iteration: the extra column test comes before the
\* missing column test
columns_iteration_extra_first(table, from_columns, to_columns, from_col, to_col) ==
    IF to_col # Len(to_columns) + 1
       /\ to_columns[to_col].name = from_columns[from_col].name
    THEN [mismatch |-> check_column_match(table, from_columns[from_col], to_columns[to_col]),
          to_column |-> to_col + 1]
    ELSE IF to_col # Len(to_columns) + 1
            /\ find_if(from_columns, from_col, to_columns[to_col].name)
                   = Len(from_columns) + 1
    THEN [mismatch |-> "Extra column " \o to_columns[to_col].name
                           \o " on table " \o table.name,
          to_column |-> to_col]
    ELSE IF find_if(to_columns, to_col, from_columns[from_col].name)
                = Len(to_columns) + 1
    THEN [mismatch |-> "Missing column " \o from_columns[from_col].name
                           \o " on table " \o table.name,
          to_column |-> to_col]
    ELSE [mismatch |-> "Misordered column " \o from_columns[from_col].name
                           \o " on table " \o table.name \o ", should have "
                           \o to_columns[to_col].name \o " first",
          to_column |-> to_col]

\* one iteration of check_columns_match's for loop, from_column not at end:
\* the mismatch thrown (or none) and the to cursor afterwards
columns_iteration(table, from_columns, to_columns, from_col, to_col) ==
    IF to_col # Len(to_columns) + 1
       /\ to_columns[to_col].name = from_columns[from_col].name
    THEN [mismatch |-> check_column_match(table, from_columns[from_col], to_columns[to_col]),
          to_column |-> to_col + 1]
    ELSE IF find_if(to_columns, to_col, from_columns[from_col].name)
                = Len(to_columns) + 1
    THEN [mismatch |-> "Missing column " \o from_columns[from_col].name
                           \o " on table " \o table.name,
          to_column |-> to_col]
    ELSE IF find_if(from_columns, from_col, to_columns[to_col].name)
                = Len(from_columns) + 1
    THEN [mismatch |-> "Extra column " \o to_columns[to_col].name
                           \o " on table " \o table.name,
          to_column |-> to_col]
    ELSE [mismatch |-> "Misordered column " \o from_columns[from_col].name
                           \o " on table " \o table.name \o ", should have "
                           \o to_columns[to_col].name \o " first",
          to_column |-> to_col]

\* check_columns_match after its loop: trailing to columns
columns_trailing(table, to_columns, to_col) ==
    IF to_col # Len(to_columns) + 1
    THEN "Extra column " \o to_columns[to_col].name \o " on table " \o table.name
    ELSE NoMismatch

RECURSIVE columns_loop(_, _, _, _, _)
columns_loop(table, from_columns, to_columns, from_col, to_col) ==
    IF from_col = Len(from_columns) + 1
    THEN columns_trailing(table, to_columns, to_col)
    ELSE LET step == columns_iteration(table, from_columns, to_columns, from_col, to_col)
         IN  IF step.mismatch # NoMismatch THEN step.mismatch
             ELSE columns_loop(table, from_columns, to_columns, from_col + 1, step.to_column)

check_columns_match(table, from_columns, to_columns) ==
    columns_loop(table, from_columns, to_columns, 1, 1)

\* mutant of check_primary_key_matches: the two index lists are compared as
\* sets
check_primary_key_matches_unordered(table, from_primary_key_columns, to_primary_key_columns) ==
    IF {from_primary_key_columns[i] : i \in 1..Len(from_primary_key_columns)}
           # {to_primary_key_columns[i] : i \in 1..Len(to_primary_key_columns)}
    THEN "Mismatching primary key " \o columns_list(table.columns, to_primary_key_columns)
             \o " on table " \o table.name \o ", should have "
             \o columns_list(table.columns, from_primary_key_columns)
    ELSE NoMismatch

check_primary_key_matches(table, from_primary_key_columns, to_primary_key_columns) ==
    IF from_primary_key_columns # to_primary_key_columns
    THEN "Mismatching primary key " \o columns_list(table.columns, to_primary_key_columns)
             \o " on table " \o table.name \o ", should have "
             \o columns_list(table.columns, from_primary_key_columns)
    ELSE NoMismatch

\* mutant of check_key_match: the columns of the two keys are not compared
check_key_match_unique_only(table, from_k, to_k) ==
    IF unique(from_k) # unique(to_k)
    THEN "Mismatching unique flag on table " \o table.name \o " key " \o from_k.name
    ELSE NoMismatch

check_key_match(table, from_k, to_k) ==
    IF unique(from_k) # unique(to_k)
    THEN "Mismatching unique flag on table " \o table.name \o " key " \o from_k.name
    ELSE IF from_k.columns # to_k.columns
    THEN "Mismatching columns " \o columns_list(table.columns, to_k.columns)
             \o " on table " \o table.name \o " key " \o from_k.name
             \o ", should have " \o columns_list(table.columns, from_k.columns)
    ELSE NoMismatch

\* mutant of keys_iteration: the to cursor is not tested against end(); what
\* is read at end() compares equal to the from key and is stepped over
keys_iteration_unguarded(table, from_ks, to_ks, from_k, to_k) ==
    IF to_k <= Len(to_ks) /\ string_less(from_ks[from_k].name, to_ks[to_k].name)
    THEN [mismatch |-> "Missing key " \o from_ks[from_k].name
                           \o " on table " \o table.name,
          to_key |-> to_k]
    ELSE IF to_k <= Len(to_ks) /\ string_less(to_ks[to_k].name, from_ks[from_k].name)
    THEN [mismatch |-> "Extra key " \o to_ks[to_k].name \o " on table " \o table.name,
          to_key |-> to_k]
    ELSE [mismatch |-> IF to_k <= Len(to_ks)
                       THEN check_key_match(table, from_ks[from_k], to_ks[to_k])
                       ELSE NoMismatch,
          to_key |-> to_k + 1]

\* one iteration of check_keys_match's for loop over the sorted copies
keys_iteration(table, from_ks, to_ks, from_k, to_k) ==
    IF to_k = Len(to_ks) + 1 \/ string_less(from_ks[from_k].name, to_ks[to_k].name)
    THEN [mismatch |-> "Missing key " \o from_ks[from_k].name
                           \o " on table " \o table.name,
          to_key |-> to_k]
    ELSE IF string_less(to_ks[to_k].name, from_ks[from_k].name)
    THEN [mismatch |-> "Extra key " \o to_ks[to_k].name \o " on table " \o table.name,
          to_key |-> to_k]
    ELSE [mismatch |-> check_key_match(table, from_ks[from_k], to_ks[to_k]),
          to_key |-> to_k + 1]

\* check_keys_match after its loop: trailing to keys
keys_trailing(table, to_ks, to_k) ==
    IF to_k # Len(to_ks) + 1
    THEN "Extra key " \o to_ks[to_k].name \o " on table " \o table.name
    ELSE NoMismatch

RECURSIVE keys_loop(_, _, _, _, _)
keys_loop(table, from_ks, to_ks, from_k, to_k) ==
    IF from_k = Len(from_ks) + 1
    THEN keys_trailing(table, to_ks, to_k)
    ELSE LET step == keys_iteration(table, from_ks, to_ks, from_k, to_k)
         IN  IF step.mismatch # NoMismatch THEN step.mismatch
             ELSE keys_loop(table, from_ks, to_ks, from_k + 1, step.to_key)

check_keys_match(table, from_ks, to_ks) ==
    keys_loop(table, sort_keys(from_ks), sort_keys(to_ks), 1, 1)

check_table_match(from_t, to_t) ==
    LET columns_mismatch == check_columns_match(from_t, from_t.columns, to_t.columns)
        primary_key_mismatch ==
            check_primary_key_matches(from_t, from_t.primary_key_columns,
                                      to_t.primary_key_columns)
    IN  IF columns_mismatch # NoMismatch THEN columns_mismatch
        ELSE IF primary_key_mismatch # NoMismatch THEN primary_key_mismatch
        ELSE check_keys_match(from_t, from_t.keys, to_t.keys)

\* the filter test of skip_ignored_tables' while condition
is_ignored(name, ignore, only) ==
    name \in ignore \/ (only # {} /\ name \notin only)

\* mutant of skip_ignored_tables: an if in place of the while, at most one
\* table is skipped
skip_one_ignored_table(tables, table, ignore, only) ==
    IF table # Len(tables) + 1 /\ is_ignored(tables[table].name, ignore, only)
    THEN table + 1
    ELSE table

RECURSIVE skip_ignored_tables(_, _, _, _)
skip_ignored_tables(tables, table, ignore, only) ==
    IF table # Len(tables) + 1 /\ is_ignored(tables[table].name, ignore, only)
    THEN skip_ignored_tables(tables, table + 1, ignore, only)
    ELSE table

\* mutant of tables_iteration: the two name comparisons the other way round
tables_iteration_swapped(from_ts, to_ts, from_t, to_t) ==
    IF to_t = Len(to_ts) + 1 \/ string_less(to_ts[to_t].name, from_ts[from_t].name)
    THEN "Missing table " \o from_ts[from_t].name
    ELSE IF string_less(from_ts[from_t].name, to_ts[to_t].name)
    THEN "Extra table " \o to_ts[to_t].name
    ELSE NoMismatch

\* the branch check_tables_match's loop body takes for the two cursors
tables_iteration(from_ts, to_ts, from_t, to_t) ==
    IF to_t = Len(to_ts) + 1 \/ string_less(from_ts[from_t].name, to_ts[to_t].name)
    THEN "Missing table " \o from_ts[from_t].name
    ELSE IF string_less(to_ts[to_t].name, from_ts[from_t].name)
    THEN "Extra table " \o to_ts[to_t].name
    ELSE NoMismatch

\* check_tables_match after its loop: trailing to tables
tables_trailing(to_ts, to_t) ==
    IF to_t # Len(to_ts) + 1
    THEN "Extra table " \o to_ts[to_t].name
    ELSE NoMismatch

RECURSIVE tables_loop(_, _, _, _, _, _)
tables_loop(from_ts, to_ts, from_t, to_t, ignore, only) ==
    IF from_t = Len(from_ts) + 1
    THEN tables_trailing(to_ts, to_t)
    ELSE LET presence == tables_iteration(from_ts, to_ts, from_t, to_t)
             match == check_table_match(from_ts[from_t], to_ts[to_t])
         IN  IF presence # NoMismatch THEN presence
             ELSE IF match # NoMismatch THEN match
             ELSE tables_loop(from_ts, to_ts,
                              skip_ignored_tables(from_ts, from_t + 1, ignore, only),
                              skip_ignored_tables(to_ts, to_t + 1, ignore, only),
                              ignore, only)

check_tables_match(from_ts, to_ts, ignore, only) ==
    LET sorted_from == sort_tables(from_ts)
        sorted_to == sort_tables(to_ts)
    IN  tables_loop(sorted_from, sorted_to,
                    skip_ignored_tables(sorted_from, 1, ignore, only),
                    skip_ignored_tables(sorted_to, 1, ignore, only),
                    ignore, only)

\* check_schema_match as a function of its arguments: the message thrown, or
\* NoMismatch
check_schema_match(from_db, to_db, ignore, only) ==
    check_tables_match(from_db.tables, to_db.tables, ignore, only)

(***************************************************************************)
(* The execution of check_schema_match(from_database, to_database,         *)
(* ignore_tables, only_tables), one action per statement of the walk.      *)
(***************************************************************************)
end(sequence) == Len(sequence) + 1

\* throw schema_mismatch(error): nothing of check_schema_match runs after it
report_schema_mismatch(error) ==
    /\ mismatch' = error
    /\ pc' = "thrown"

\* check_schema_match -> check_tables_match: the by-value copies are sorted
\* and both cursors are moved past the filtered tables
CheckSchemaMatch ==
    /\ pc = "check_schema_match"
    /\ UNCHANGED <<endpointVars, adapterVars, resVars>>
    /\ from_tables' = sort_tables(from_database.tables)
    /\ to_tables' = sort_tables(to_database.tables)
    /\ to_table' = skip_ignored_tables(to_tables', 1, ignore_tables, only_tables)
    /\ from_table' = skip_ignored_tables(from_tables', 1, ignore_tables, only_tables)
    /\ pc' = "check_tables_match"
    /\ UNCHANGED <<from_database, to_database, ignore_tables, only_tables,
                   from_column, to_column, from_keys, to_keys, from_key, to_key,
                   mismatch>>

\* check_tables_match: the loop condition, the branch of the loop body for
\* the two cursors, and after the loop the test for trailing to tables
CheckTablesMatch ==
    /\ pc = "check_tables_match"
    /\ UNCHANGED <<endpointVars, adapterVars, resVars>>
    /\ IF from_table = end(from_tables)
       THEN IF tables_trailing(to_tables, to_table) # NoMismatch
            THEN report_schema_mismatch(tables_trailing(to_tables, to_table))
            ELSE pc' = "returned" /\ UNCHANGED mismatch
       ELSE IF tables_iteration(from_tables, to_tables, from_table, to_table) # NoMismatch
            THEN report_schema_mismatch(
                     tables_iteration(from_tables, to_tables, from_table, to_table))
            ELSE pc' = "check_table_match" /\ UNCHANGED mismatch
    /\ UNCHANGED <<from_database, to_database, ignore_tables, only_tables,
                   from_tables, to_tables, from_table, to_table,
                   from_column, to_column, from_keys, to_keys, from_key, to_key>>

\* mutant of CheckTableMatch: check_table_match starts at the primary key
\* and never compares the columns
CheckTableMatch_primary_key_first ==
    /\ pc = "check_table_match"
    /\ UNCHANGED <<endpointVars, adapterVars, resVars>>
    /\ from_column' = 1
    /\ to_column' = 1
    /\ pc' = "check_primary_key_matches"
    /\ UNCHANGED <<from_database, to_database, ignore_tables, only_tables,
                   from_tables, to_tables, from_table, to_table,
                   from_keys, to_keys, from_key, to_key, mismatch>>

\* check_table_match(*from_table, *to_table) -> check_columns_match: both
\* column cursors start at begin()
CheckTableMatch ==
    /\ pc = "check_table_match"
    /\ UNCHANGED <<endpointVars, adapterVars, resVars>>
    /\ from_column' = 1
    /\ to_column' = 1
    /\ pc' = "check_columns_match"
    /\ UNCHANGED <<from_database, to_database, ignore_tables, only_tables,
                   from_tables, to_tables, from_table, to_table,
                   from_keys, to_keys, from_key, to_key, mismatch>>

\* check_columns_match: one iteration of the for loop, or the test for
\* trailing to columns once the from columns are exhausted
CheckColumnsMatch ==
    /\ pc = "check_columns_match"
    /\ UNCHANGED <<endpointVars, adapterVars, resVars>>
    /\ LET table == from_tables[from_table]
           from_columns == from_tables[from_table].columns
           to_columns == to_tables[to_table].columns
           step == columns_iteration(table, from_columns, to_columns,
                                     from_column, to_column)
       IN  IF from_column = end(from_columns)
           THEN /\ IF columns_trailing(table, to_columns, to_column) # NoMismatch
                   THEN report_schema_mismatch(
                            columns_trailing(table, to_columns, to_column))
                   ELSE pc' = "check_primary_key_matches" /\ UNCHANGED mismatch
                /\ UNCHANGED <<from_column, to_column>>
           ELSE IF step.mismatch # NoMismatch
           THEN /\ report_schema_mismatch(step.mismatch)
                /\ UNCHANGED <<from_column, to_column>>
           ELSE /\ to_column' = step.to_column
                /\ from_column' = from_column + 1
                /\ UNCHANGED <<pc, mismatch>>
    /\ UNCHANGED <<from_database, to_database, ignore_tables, only_tables,
                   from_tables, to_tables, from_table, to_table,
                   from_keys, to_keys, from_key, to_key>>

\* check_primary_key_matches
CheckPrimaryKeyMatches ==
    /\ pc = "check_primary_key_matches"
    /\ UNCHANGED <<endpointVars, adapterVars, resVars>>
    /\ LET primary_key_mismatch ==
               check_primary_key_matches(from_tables[from_table],
                   from_tables[from_table].primary_key_columns,
                   to_tables[to_table].primary_key_columns)
       IN  IF primary_key_mismatch # NoMismatch
           THEN report_schema_mismatch(primary_key_mismatch)
           ELSE pc' = "check_keys_match" /\ UNCHANGED mismatch
    /\ UNCHANGED <<from_database, to_database, ignore_tables, only_tables,
                   from_tables, to_tables, from_table, to_table,
                   from_column, to_column, from_keys, to_keys, from_key, to_key>>

\* check_keys_match entered: the by-value copies are sorted, both cursors
\* start at begin()
CheckKeysMatch ==
    /\ pc = "check_keys_match"
    /\ UNCHANGED <<endpointVars, adapterVars, resVars>>
    /\ from_keys' = sort_keys(from_tables[from_table].keys)
    /\ to_keys' = sort_keys(to_tables[to_table].keys)
    /\ from_key' = 1
    /\ to_key' = 1
    /\ pc' = "check_keys_loop"
    /\ UNCHANGED <<from_database, to_database, ignore_tables, only_tables,
                   from_tables, to_tables, from_table, to_table,
                   from_column, to_column, mismatch>>

\* check_keys_match: one iteration of the for loop, or the test for trailing
\* to keys; when the table matched, check_tables_match moves both table
\* cursors to their next unfiltered table
CheckKeysLoop ==
    /\ pc = "check_keys_loop"
    /\ UNCHANGED <<endpointVars, adapterVars, resVars>>
    /\ LET table == from_tables[from_table]
           step == keys_iteration(table, from_keys, to_keys, from_key, to_key)
       IN  IF from_key = end(from_keys)
           THEN /\ IF keys_trailing(table, to_keys, to_key) # NoMismatch
                   THEN /\ report_schema_mismatch(keys_trailing(table, to_keys, to_key))
                        /\ UNCHANGED <<from_table, to_table>>
                   ELSE /\ to_table' = skip_ignored_tables(to_tables, to_table + 1,
                                           ignore_tables, only_tables)
                        /\ from_table' = skip_ignored_tables(from_tables, from_table + 1,
                                             ignore_tables, only_tables)
                        /\ pc' = "check_tables_match"
                        /\ UNCHANGED mismatch
                /\ UNCHANGED <<from_key, to_key>>
           ELSE IF step.mismatch # NoMismatch
           THEN /\ report_schema_mismatch(step.mismatch)
                /\ UNCHANGED <<from_key, to_key, from_table, to_table>>
           ELSE /\ to_key' = step.to_key
                /\ from_key' = from_key + 1
                /\ UNCHANGED <<pc, mismatch, from_table, to_table>>
    /\ UNCHANGED <<from_database, to_database, ignore_tables, only_tables,
                   from_tables, to_tables, from_column, to_column,
                   from_keys, to_keys>>

Next ==
    \/ CheckSchemaMatch
    \/ CheckTablesMatch
    \/ CheckTableMatch
    \/ CheckColumnsMatch
    \/ CheckPrimaryKeyMatches
    \/ CheckKeysMatch
    \/ CheckKeysLoop

(***************************************************************************)
(* The inputs.  Databases are valid (section 3 of the schema model): table *)
(* names are unique per database, column and key names unique per table,   *)
(* and every ColumnIndex is below the number of columns.                   *)
(***************************************************************************)
TableNames == {"a", "b", "c"}
ColumnNames == {"x", "y", "z"}
KeyNames == {"k", "l", "m"}

\* the sequences of at most n distinct elements of S
DistinctSeqs(S, n) ==
    UNION {{s \in [1..k -> S] : \A i, j \in 1..k : i # j => s[i] # s[j]} : k \in 0..n}

SubsetsUpTo(S, n) == {x \in SUBSET S : Cardinality(x) <= n}

\* columns of type INT, size 4, with the given names
IntColumns(names) == [i \in 1..Len(names) |-> Column(names[i], "INT", 4)]

\* what a table of the table-level inputs holds besides its name
TableBodies ==
    {[columns |-> IntColumns(<<"x">>), primary_key_columns |-> <<0>>,
      primary_key_type |-> "explicit_primary_key", keys |-> <<>>],
     [columns |-> IntColumns(<<"x", "y">>), primary_key_columns |-> <<0>>,
      primary_key_type |-> "explicit_primary_key",
      keys |-> <<Key("k", "standard_key", <<1>>)>>]}

WithBody(name, body) ==
    Table(name, body.columns, body.primary_key_columns, body.primary_key_type, body.keys)

\* databases of at most MaxTables tables, in any order
TableLevelDatabases ==
    {Database([i \in 1..Len(names) |-> WithBody(names[i], bodies[i])]) :
        <<names, bodies>> \in
            UNION {{<<n, b>> : b \in [1..Len(n) -> TableBodies]} :
                       n \in DistinctSeqs(TableNames, MaxTables)}}

Filters == SubsetsUpTo(TableNames, MaxFilter)

\* sync_to is not running: nothing to read, nothing written
NoEndpoint ==
    /\ stream = <<>>
    /\ stream_pos = 0
    /\ cout = <<>>
    /\ protocol = 0
    /\ client = Database(<<>>)
    /\ closed = {}

\* PostgreSQLRes::conversions before populate_conversions(), and the
\* PostgreSQLRes of a client that is in no query()
NoConversions == <<>>
NoRes == [ftype |-> <<>>, isnull |-> <<>>, conversions |-> NoConversions]

\* a PostgreSQLClient as constructed: the type map is empty, no query runs
NoResult ==
    /\ type_map = [geometry |-> {}]
    /\ res = NoRes
    /\ row_number = 0
    /\ column_number = 0
    /\ packer = <<>>
    /\ collected = FALSE
    /\ populated = <<>>

\* no operation of the PostgreSQL adapter is running
NoAdapter ==
    /\ pg_pc = "idle"
    /\ pg_input = <<>>
    /\ database = Database(<<>>)
    /\ pg_table = Table("", <<>>, <<>>, "no_available_key", <<>>)
    /\ rows = <<>>
    /\ executed = <<>>
    /\ result = ""
    /\ pg_error = ""

\* the locals of the walk
WalkLocals ==
    /\ from_tables = <<>>
    /\ to_tables = <<>>
    /\ from_table = 0
    /\ to_table = 0
    /\ from_column = 0
    /\ to_column = 0
    /\ from_keys = <<>>
    /\ to_keys = <<>>
    /\ from_key = 0
    /\ to_key = 0
    /\ mismatch = NoMismatch

\* the locals of the walk before check_schema_match is entered
InitWalk ==
    /\ NoEndpoint
    /\ NoAdapter
    /\ NoResult
    /\ from_tables = <<>>
    /\ to_tables = <<>>
    /\ from_table = 0
    /\ to_table = 0
    /\ from_column = 0
    /\ to_column = 0
    /\ from_keys = <<>>
    /\ to_keys = <<>>
    /\ from_key = 0
    /\ to_key = 0
    /\ pc = "check_schema_match"
    /\ mismatch = NoMismatch

\* two databases that differ in their tables, under any filters
InitTables ==
    /\ from_database \in TableLevelDatabases
    /\ to_database \in TableLevelDatabases
    /\ ignore_tables \in Filters
    /\ only_tables \in Filters
    /\ InitWalk

SpecTables == InitTables /\ [][Next]_vars

\* the primary keys a table of n columns can have: none, or an explicit
\* primary key or a suitable unique key over some of its columns
PrimaryKeys(n) ==
    {[columns |-> <<>>, type |-> "no_available_key"]} \cup
    {[columns |-> c, type |-> t] :
        c \in DistinctSeqs(0..(n - 1), n) \ {<<>>},
        t \in {"explicit_primary_key", "suitable_unique_key"}}

\* one table T of at most MaxColumns INT columns, in any order, with any
\* primary key, and a unique key on its first column when it has one
ColumnLevelTables ==
    {Table("T", IntColumns(names), pk.columns, pk.type,
           IF names = <<>> THEN <<>> ELSE <<Key("k", "unique_key", <<0>>)>>) :
        <<names, pk>> \in
            UNION {{<<n, k>> : k \in PrimaryKeys(Len(n))} :
                       n \in DistinctSeqs(ColumnNames, MaxColumns)}}

\* the column `name` with one attribute off the INT column's, or of an
\* unknown type with one of two type definitions
ColumnVariants(name) ==
    LET column == Column(name, "INT", 4)
    IN  {[column EXCEPT !.nullable = FALSE],
         [column EXCEPT !.column_type = "VARCHAR"],
         [column EXCEPT !.size = 8],
         [column EXCEPT !.scale = 2],
         [column EXCEPT !.default_type = "default_expression"],
         [column EXCEPT !.default_value = "0"],
         [column EXCEPT !.flags = {"time_zone"}],
         [column EXCEPT !.type_restriction = "point"],
         [column EXCEPT !.reference_system = "4326"],
         [column EXCEPT !.enumeration_values = <<"e">>],
         [column EXCEPT !.db_type_def = "int4"],
         [column EXCEPT !.column_type = "UNKNOWN", !.db_type_def = "numeric[]"],
         [column EXCEPT !.column_type = "UNKNOWN", !.db_type_def = "character varying[]"]}

OrderedColumnNames == <<"x", "y", "z">>

\* one table T whose columns are the first n <= MaxColumns names in order,
\* all INT columns but for at most one, which is one of its variants
AttributeLevelTables ==
    {Table("T", columns, <<>>, "no_available_key", <<>>) :
        columns \in
            UNION {{IntColumns(SubSeq(OrderedColumnNames, 1, n))} \cup
                   {[IntColumns(SubSeq(OrderedColumnNames, 1, n)) EXCEPT ![i] = v] :
                        <<i, v>> \in UNION {{<<j, w>> :
                                        w \in ColumnVariants(OrderedColumnNames[j])} :
                                    j \in 1..n}} :
                   n \in 0..(IF MaxColumns < Len(OrderedColumnNames)
                             THEN MaxColumns ELSE Len(OrderedColumnNames))}}

\* two databases of one table T each, that differ in T's columns or primary
\* key, or in the attributes of its columns
InitColumns ==
    /\ \/ \E from_t \in ColumnLevelTables, to_t \in ColumnLevelTables :
             /\ from_database = Database(<<from_t>>)
             /\ to_database = Database(<<to_t>>)
       \/ \E from_t \in AttributeLevelTables, to_t \in AttributeLevelTables :
             /\ from_database = Database(<<from_t>>)
             /\ to_database = Database(<<to_t>>)
    /\ ignore_tables = {}
    /\ only_tables = {}
    /\ InitWalk

SpecColumns == InitColumns /\ [][Next]_vars

\* the columns a key of the key-level inputs is on
KeyColumns == {<<0>>, <<1, 0>>}

\* a list of keys with the given names, in the given order, of any types on
\* any of KeyColumns
KeyLists(names) ==
    {[i \in 1..Len(names) |-> Key(names[i], d[i][1], d[i][2])] :
        d \in [1..Len(names) -> KeyType \X KeyColumns]}

\* the sequences of at most n distinct key names in ascending and in
\* descending order
AscendingKeyNames(n) ==
    {s \in DistinctSeqs(KeyNames, n) :
        \A i \in 1..(Len(s) - 1) : string_less(s[i], s[i + 1])}

DescendingKeyNames(n) ==
    {s \in DistinctSeqs(KeyNames, n) :
        \A i \in 1..(Len(s) - 1) : string_less(s[i + 1], s[i])}

KeyLevelTable(keys) ==
    Table("T", IntColumns(<<"x", "y">>), <<0>>, "explicit_primary_key", keys)

\* two databases of one table T each, with the same columns and primary key,
\* that differ in T's keys: at most MaxKeys keys each, of any types, listed
\* by ascending name on the from side and by descending name on the to side
InitKeys ==
    /\ \E from_names \in AscendingKeyNames(MaxKeys),
          to_names \in DescendingKeyNames(MaxKeys) :
          \E from_ks \in KeyLists(from_names), to_ks \in KeyLists(to_names) :
             /\ from_database = Database(<<KeyLevelTable(from_ks)>>)
             /\ to_database = Database(<<KeyLevelTable(to_ks)>>)
    /\ ignore_tables = {}
    /\ only_tables = {}
    /\ InitWalk

SpecKeys == InitKeys /\ [][Next]_vars

\* the orders a sequence can be put in
Orderings(sequence) ==
    {[i \in 1..Len(sequence) |-> sequence[p[i]]] :
        p \in {q \in [1..Len(sequence) -> 1..Len(sequence)] :
                  \A i, j \in 1..Len(sequence) : i # j => q[i] # q[j]}}

\* a database of any of the kinds above
SampleDatabases ==
    TableLevelDatabases
    \cup {Database(<<t>>) : t \in ColumnLevelTables \cup AttributeLevelTables}
    \cup {Database(<<KeyLevelTable(ks)>>) :
              ks \in UNION {KeyLists(n) : n \in DistinctSeqs(KeyNames, MaxKeys)}}

\* a database against itself with its tables in any order, under any filters
InitSame ==
    /\ from_database \in SampleDatabases
    /\ to_database \in {Database(tables) : tables \in Orderings(from_database.tables)}
    /\ ignore_tables \in Filters
    /\ only_tables \in Filters
    /\ InitWalk

SpecSame == InitSame /\ [][Next]_vars

(***************************************************************************)
(* What the claims speak of.                                               *)
(***************************************************************************)
Finished == pc \in {"returned", "thrown"}

Range(sequence) == {sequence[i] : i \in 1..Len(sequence)}

NamesOf(sequence) == {e.name : e \in Range(sequence)}

NameSeq(sequence) == [i \in 1..Len(sequence) |-> sequence[i].name]

Named(sequence, name) == CHOOSE e \in Range(sequence) : e.name = name

\* a table name the filters let through
Unfiltered(name) ==
    name \notin ignore_tables /\ (only_tables = {} \/ name \in only_tables)

UnfilteredFromNames == {n \in NamesOf(from_database.tables) : Unfiltered(n)}

UnfilteredToNames == {n \in NamesOf(to_database.tables) : Unfiltered(n)}

\* the unfiltered names that exist on one side only
OneSidedNames ==
    (UnfilteredFromNames \ UnfilteredToNames) \cup (UnfilteredToNames \ UnfilteredFromNames)

Smallest(names) == CHOOSE n \in names : \A m \in names : m = n \/ string_less(n, m)

\* every unfiltered table that sorts before `name` is on both sides and
\* passes check_table_match
SmallerTablesMatch(name) ==
    \A n \in UnfilteredFromNames \cup UnfilteredToNames :
        string_less(n, name) =>
            /\ n \in UnfilteredFromNames \cap UnfilteredToNames
            /\ check_table_match(Named(from_database.tables, n),
                                 Named(to_database.tables, n)) = NoMismatch

\* C3: when the smallest unfiltered table name N that is on one side only is
\* preceded only by tables that match, check_schema_match throws exactly
\* "Missing table N" if N is a from table and "Extra table N" if it is a to table.
C3_TablePresence ==
    (Finished /\ OneSidedNames # {} /\ SmallerTablesMatch(Smallest(OneSidedNames))) =>
        /\ pc = "thrown"
        /\ mismatch = IF Smallest(OneSidedNames) \in UnfilteredFromNames
                      THEN "Missing table " \o Smallest(OneSidedNames)
                      ELSE "Extra table " \o Smallest(OneSidedNames)

\* C3 witness: from = [a, b], to = [a], unfiltered, has thrown "Missing table b"
C3_Witness ==
    /\ pc = "thrown"
    /\ NameSeq(from_database.tables) = <<"a", "b">>
    /\ Len(to_database.tables) = 1
    /\ to_database.tables[1].name = "a"
    /\ Unfiltered("a") /\ Unfiltered("b")
    /\ SmallerTablesMatch("b")
    /\ mismatch = "Missing table b"

\* the database without the tables the filters exclude
RECURSIVE WithoutFiltered(_)
WithoutFiltered(tables) ==
    IF tables = <<>> THEN <<>>
    ELSE IF Unfiltered(Head(tables).name)
         THEN <<Head(tables)>> \o WithoutFiltered(Tail(tables))
         ELSE WithoutFiltered(Tail(tables))

\* C4: check_schema_match under filters ends as check_schema_match with empty
\* filters does on the two databases with the filtered tables removed:
\* returning, or throwing the same message.
C4_FilterEquivalence ==
    Finished =>
        /\ mismatch = check_schema_match(Database(WithoutFiltered(from_database.tables)),
                                         Database(WithoutFiltered(to_database.tables)),
                                         {}, {})
        /\ (pc = "returned") = (mismatch = NoMismatch)

\* C4 witness: both filters are in use, tables of both sides are filtered
\* out, and without the filters the outcome would have been another one
C4_Witness ==
    /\ pc = "returned"
    /\ ignore_tables # {} /\ only_tables # {}
    /\ \E t \in Range(from_database.tables) : t.name \in ignore_tables
    /\ \E t \in Range(to_database.tables) : t.name \notin only_tables
    /\ UnfilteredFromNames # {}
    /\ check_schema_match(from_database, to_database, {}, {}) # NoMismatch

\* C1: a valid database matches itself under any filters: check_schema_match
\* does not throw.
C1_Reflexivity ==
    to_database = from_database => (pc # "thrown" /\ mismatch = NoMismatch)

\* C1 witness: a database of two tables, one of them with a key and let
\* through by the filters, has been matched against itself
C1_Witness ==
    /\ pc = "returned"
    /\ to_database = from_database
    /\ Len(from_database.tables) >= 2
    /\ \E t \in Range(from_database.tables) : Unfiltered(t.name) /\ t.keys # <<>>

\* b holds the elements of a, each once, in some order
IsPermutation(a, b) ==
    /\ Len(a) = Len(b)
    /\ \E p \in [1..Len(a) -> 1..Len(a)] :
          /\ \A i, j \in 1..Len(a) : i # j => p[i] # p[j]
          /\ \A i \in 1..Len(a) : b[i] = a[p[i]]

\* C2: a valid database matches every reordering of its tables:
\* check_schema_match does not throw.
C2_TableOrderIndependence ==
    IsPermutation(from_database.tables, to_database.tables) =>
        (pc # "thrown" /\ mismatch = NoMismatch)

\* C2 witness: tables b, a in that order have been matched against a, b,
\* where a and b differ in what they hold and neither is filtered
C2_Witness ==
    /\ pc = "returned"
    /\ NameSeq(from_database.tables) = <<"b", "a">>
    /\ NameSeq(to_database.tables) = <<"a", "b">>
    /\ from_database.tables[1].columns # from_database.tables[2].columns
    /\ Unfiltered("a") /\ Unfiltered("b")

\* the two tables of a run over one table per side
FromT == from_database.tables[1]

ToT == to_database.tables[1]

ColumnNamesFrom(columns, first) == {columns[j].name : j \in first..Len(columns)}

\* position i of the from columns does not hold the to column at i
ColumnDiffers(i) ==
    i > Len(ToT.columns) \/ FromT.columns[i].name # ToT.columns[i].name

\* the first position of the from columns that differs, 0 if none does
FirstDifference ==
    IF \E i \in 1..Len(FromT.columns) : ColumnDiffers(i)
    THEN CHOOSE i \in 1..Len(FromT.columns) :
             ColumnDiffers(i) /\ \A j \in 1..(i - 1) : ~ColumnDiffers(j)
    ELSE 0

\* C5: at the first position where the from column X is not the to column Y,
\* with X among the remaining to columns and Y among the remaining from
\* columns, "Misordered column X on table T, should have Y first" is thrown.
C5_MisorderedColumn ==
    (/\ Finished
     /\ FirstDifference # 0
     /\ FirstDifference <= Len(ToT.columns)
     /\ FromT.columns[FirstDifference].name
            \in ColumnNamesFrom(ToT.columns, FirstDifference)
     /\ ToT.columns[FirstDifference].name
            \in ColumnNamesFrom(FromT.columns, FirstDifference)) =>
        /\ pc = "thrown"
        /\ mismatch = "Misordered column " \o FromT.columns[FirstDifference].name
                          \o " on table " \o FromT.name \o ", should have "
                          \o ToT.columns[FirstDifference].name \o " first"

\* C5 witness: from columns [x, y] against to columns [y, x] on table T
C5_Witness ==
    /\ pc = "thrown"
    /\ NameSeq(FromT.columns) = <<"x", "y">>
    /\ NameSeq(ToT.columns) = <<"y", "x">>
    /\ mismatch = "Misordered column x on table T, should have y first"

\* C6: at the first position where the from column X is not the current to
\* column, "Missing column X on table T" is thrown if X is not among the
\* remaining to columns; otherwise "Extra column Y on table T" if the current
\* to column Y is not among the remaining from columns.  When every from
\* column matched and to columns remain, "Extra column Y on table T" is
\* thrown for the first of them.
C6_MissingExtraColumn ==
    Finished =>
        IF FirstDifference # 0
        THEN IF FromT.columns[FirstDifference].name
                    \notin ColumnNamesFrom(ToT.columns, FirstDifference)
             THEN /\ pc = "thrown"
                  /\ mismatch = "Missing column " \o FromT.columns[FirstDifference].name
                                    \o " on table " \o FromT.name
             ELSE ToT.columns[FirstDifference].name
                      \notin ColumnNamesFrom(FromT.columns, FirstDifference) =>
                  /\ pc = "thrown"
                  /\ mismatch = "Extra column " \o ToT.columns[FirstDifference].name
                                    \o " on table " \o FromT.name
        ELSE Len(ToT.columns) > Len(FromT.columns) =>
                  /\ pc = "thrown"
                  /\ mismatch = "Extra column "
                                    \o ToT.columns[Len(FromT.columns) + 1].name
                                    \o " on table " \o FromT.name

\* C6 witness: the from column is missing on the to side and the to column
\* is extra at the same position, after a matched first column; Missing
\* column has been thrown
C6_Witness ==
    /\ pc = "thrown"
    /\ FirstDifference = 2
    /\ Len(ToT.columns) = 2
    /\ FromT.columns[2].name \notin NamesOf(ToT.columns)
    /\ ToT.columns[2].name \notin NamesOf(FromT.columns)
    /\ mismatch = "Missing column " \o FromT.columns[2].name \o " on table T"

\* the two databases have the same table names and, table by table, the same
\* column names in the same order, the same primary_key_columns and the same
\* keys
SameNamesAndKeys ==
    /\ NamesOf(from_database.tables) = NamesOf(to_database.tables)
    /\ \A n \in NamesOf(from_database.tables) :
          LET f == Named(from_database.tables, n)
              t == Named(to_database.tables, n)
          IN  /\ NameSeq(f.columns) = NameSeq(t.columns)
              /\ f.primary_key_columns = t.primary_key_columns
              /\ f.keys = t.keys

\* C7: databases with the same table names, column names in order, primary
\* key columns and keys match, whatever the other attributes of their
\* columns are: check_schema_match does not throw.
C7_LenientColumnMatch ==
    SameNamesAndKeys => (pc # "thrown" /\ mismatch = NoMismatch)

\* C7 witness: check_schema_match has returned for two tables T that are not
\* equal by Table::operator==, a column differing in a compared attribute
C7_Witness ==
    /\ pc = "returned"
    /\ SameNamesAndKeys
    /\ Len(FromT.columns) >= 2
    /\ ~ColumnsEqual(FromT.columns, ToT.columns)
    /\ ~TableEqual(FromT, ToT)

\* the positions at which both tables T hold a column of the same name and of
\* unknown type whose db_type_def strings differ
UnknownTypeDefDiffers ==
    {i \in 1..Len(FromT.columns) :
        /\ i <= Len(ToT.columns)
        /\ FromT.columns[i].name = ToT.columns[i].name
        /\ FromT.columns[i].column_type = "UNKNOWN"
        /\ ToT.columns[i].column_type = "UNKNOWN"
        /\ FromT.columns[i].db_type_def # ToT.columns[i].db_type_def}

\* C8 as claimed: two same-named columns of unknown type with different
\* db_type_def strings cause a schema mismatch.
C8_UnknownTypeDefMismatch ==
    (Finished /\ UnknownTypeDefDiffers # {}) => pc = "thrown"

\* C8 as amended: db_type_def is not compared.  Two same-named columns of
\* unknown type match whether or not their db_type_def strings are equal:
\* with the column names, primary key and keys the same, check_schema_match
\* returns, and Column::operator== holds of two such columns that differ in
\* db_type_def only.
C8_UnknownTypeDefNotCompared ==
    (Finished /\ SameNamesAndKeys /\ UnknownTypeDefDiffers # {}) =>
        /\ pc = "returned"
        /\ \A i \in UnknownTypeDefDiffers :
               [FromT.columns[i] EXCEPT !.db_type_def = ToT.columns[i].db_type_def]
                       = ToT.columns[i]
                   => ColumnEqual(FromT.columns[i], ToT.columns[i])

\* C8 witness: check_schema_match has returned for a column that is
\* numeric[] on one side and character varying[] on the other
C8_Witness ==
    /\ pc = "returned"
    /\ \E i \in UnknownTypeDefDiffers :
          /\ FromT.columns[i].db_type_def = "numeric[]"
          /\ ToT.columns[i].db_type_def = "character varying[]"

\* the messages check_primary_key_matches can throw for table T
PrimaryKeyMismatches ==
    {"Mismatching primary key " \o columns_list(FromT.columns, to_pk)
         \o " on table " \o FromT.name \o ", should have "
         \o columns_list(FromT.columns, from_pk) :
        from_pk \in DistinctSeqs(0..(Len(FromT.columns) - 1), Len(FromT.columns)),
        to_pk \in DistinctSeqs(0..(Len(FromT.columns) - 1), Len(FromT.columns))}

\* C9: for two tables T whose column names match in order, "Mismatching
\* primary key <to list> on table T, should have <from list>" is thrown if
\* the primary_key_columns differ, and no primary key mismatch is thrown if
\* they are equal, whatever the two primary_key_type values are.
C9_PrimaryKeyMatch ==
    (Finished /\ NameSeq(FromT.columns) = NameSeq(ToT.columns)) =>
        IF FromT.primary_key_columns # ToT.primary_key_columns
        THEN /\ pc = "thrown"
             /\ mismatch = "Mismatching primary key "
                               \o columns_list(FromT.columns, ToT.primary_key_columns)
                               \o " on table " \o FromT.name \o ", should have "
                               \o columns_list(FromT.columns, FromT.primary_key_columns)
        ELSE mismatch \notin PrimaryKeyMismatches

\* C9 witness: the same two columns as primary key in another order
C9_Witness ==
    /\ pc = "thrown"
    /\ NameSeq(FromT.columns) = <<"x", "y">>
    /\ NameSeq(ToT.columns) = <<"x", "y">>
    /\ FromT.primary_key_columns = <<0, 1>>
    /\ ToT.primary_key_columns = <<1, 0>>
    /\ FromT.primary_key_type # ToT.primary_key_type
    /\ mismatch = "Mismatching primary key (y, x) on table T, should have (x, y)"

\* check_keys_match is comparing two keys of the same name
KeysPaired ==
    /\ pc = "check_keys_loop"
    /\ from_key # end(from_keys)
    /\ to_key # end(to_keys)
    /\ from_keys[from_key].name = to_keys[to_key].name

EARLIEST_PROTOCOL_VERSION_SUPPORTED == 7
LATEST_PROTOCOL_VERSION_SUPPORTED == 9
PROTOCOL_VERSION_SUPPORTED == 1

\* Command(name, arguments...) as written to the output stream
Command(name, arguments) == [name |-> name, arguments |-> arguments]

\* stream.read_and_unpack has a value to hand out
stream_readable == stream_pos < Len(stream)

\* the exception of read_and_unpack at the end of the peer's output leaves
\* sync_to; nothing of it runs afterwards
stream_error ==
    /\ pc' = "stream_error"
    /\ UNCHANGED <<stream_pos, protocol, from_database>>

\* cout << Command("protocol", PROTOCOL_VERSION_SUPPORTED)
SendProtocol ==
    /\ pc = "sync_to"
    /\ cout' = Append(cout, Command("protocol", <<PROTOCOL_VERSION_SUPPORTED>>))
    /\ pc' = "read_protocol"
    /\ UNCHANGED <<from_database, to_database, ignore_tables, only_tables,
                   from_tables, to_tables, from_table, to_table,
                   from_column, to_column, from_keys, to_keys, from_key, to_key,
                   mismatch, stream, stream_pos, protocol, client, closed,
                   adapterVars, resVars>>

\* int protocol; stream.read_and_unpack(protocol): whatever the peer
\* replied is taken
ReadProtocol ==
    /\ pc = "read_protocol"
    /\ IF stream_readable
       THEN /\ protocol' = stream[stream_pos + 1]
            /\ stream_pos' = stream_pos + 1
            /\ pc' = "send_schema"
            /\ UNCHANGED from_database
       ELSE stream_error
    /\ UNCHANGED <<to_database, ignore_tables, only_tables,
                   from_tables, to_tables, from_table, to_table,
                   from_column, to_column, from_keys, to_keys, from_key, to_key,
                   mismatch, stream, cout, client, closed, adapterVars, resVars>>

\* cout << Command("schema")
SendSchema ==
    /\ pc = "send_schema"
    /\ cout' = Append(cout, Command("schema", <<>>))
    /\ pc' = "read_schema"
    /\ UNCHANGED <<from_database, to_database, ignore_tables, only_tables,
                   from_tables, to_tables, from_table, to_table,
                   from_column, to_column, from_keys, to_keys, from_key, to_key,
                   mismatch, stream, stream_pos, protocol, client, closed,
                   adapterVars, resVars>>

\* Database from_database; stream.read_and_unpack(from_database)
ReadSchema ==
    /\ pc = "read_schema"
    /\ IF stream_readable
       THEN /\ from_database' = stream[stream_pos + 1]
            /\ stream_pos' = stream_pos + 1
            /\ pc' = "database_schema"
            /\ UNCHANGED protocol
       ELSE stream_error
    /\ UNCHANGED <<to_database, ignore_tables, only_tables,
                   from_tables, to_tables, from_table, to_table,
                   from_column, to_column, from_keys, to_keys, from_key, to_key,
                   mismatch, stream, cout, client, closed, adapterVars, resVars>>

\* Database to_database(client.database_schema()); check_schema_match is
\* entered next
DatabaseSchema ==
    /\ pc = "database_schema"
    /\ to_database' = client
    /\ pc' = "check_schema_match"
    /\ UNCHANGED <<from_database, ignore_tables, only_tables,
                   from_tables, to_tables, from_table, to_table,
                   from_column, to_column, from_keys, to_keys, from_key, to_key,
                   mismatch, endpointVars, adapterVars, resVars>>

\* the same although check_schema_match threw
SendQuit_always ==
    /\ pc \in {"returned", "thrown"}
    /\ cout' = Append(cout, Command("quit", <<>>))
    /\ pc' = "close"
    /\ UNCHANGED <<from_database, to_database, ignore_tables, only_tables,
                   from_tables, to_tables, from_table, to_table,
                   from_column, to_column, from_keys, to_keys, from_key, to_key,
                   mismatch, stream, stream_pos, protocol, client, closed,
                   adapterVars, resVars>>

\* check_schema_match returned: cout << Command("quit")
SendQuit ==
    /\ pc = "returned"
    /\ cout' = Append(cout, Command("quit", <<>>))
    /\ pc' = "close"
    /\ UNCHANGED <<from_database, to_database, ignore_tables, only_tables,
                   from_tables, to_tables, from_table, to_table,
                   from_column, to_column, from_keys, to_keys, from_key, to_key,
                   mismatch, stream, stream_pos, protocol, client, closed,
                   adapterVars, resVars>>

\* close(STDOUT_FILENO); close(STDIN_FILENO)
Close ==
    /\ pc = "close"
    /\ closed' = {"STDOUT_FILENO", "STDIN_FILENO"}
    /\ pc' = "closed"
    /\ UNCHANGED <<from_database, to_database, ignore_tables, only_tables,
                   from_tables, to_tables, from_table, to_table,
                   from_column, to_column, from_keys, to_keys, from_key, to_key,
                   mismatch, stream, stream_pos, cout, protocol, client,
                   adapterVars, resVars>>

NextSyncTo ==
    \/ SendProtocol
    \/ ReadProtocol
    \/ SendSchema
    \/ ReadSchema
    \/ DatabaseSchema
    \/ CheckSchemaMatch
    \/ CheckTablesMatch
    \/ CheckTableMatch
    \/ CheckColumnsMatch
    \/ CheckPrimaryKeyMatches
    \/ CheckKeysMatch
    \/ CheckKeysLoop
    \/ SendQuit
    \/ Close

\* the versions a peer may answer "protocol" with: the announced one, and
\* the ends of the range of protocol_versions.h
ProtocolReplies ==
    {PROTOCOL_VERSION_SUPPORTED, EARLIEST_PROTOCOL_VERSION_SUPPORTED,
     LATEST_PROTOCOL_VERSION_SUPPORTED}

\* what the peer writes before it stops: nothing, its version, or its
\* version and its schema
PeerStreams ==
    {<<>>}
    \cup {<<v>> : v \in ProtocolReplies}
    \cup {<<v, d>> : v \in ProtocolReplies, d \in TableLevelDatabases}

\* sync_to(client) is entered: any peer, any destination database
InitSyncTo ==
    /\ stream \in PeerStreams
    /\ client \in TableLevelDatabases
    /\ stream_pos = 0
    /\ cout = <<>>
    /\ protocol = 0
    /\ closed = {}
    /\ from_database = Database(<<>>)
    /\ to_database = Database(<<>>)
    /\ ignore_tables = {}
    /\ only_tables = {}
    /\ WalkLocals
    /\ pc = "sync_to"
    /\ NoAdapter
    /\ NoResult

SpecSyncTo == InitSyncTo /\ [][NextSyncTo]_vars

\* the version sync_to announced, 0 before it has
Announced ==
    IF \E i \in 1..Len(cout) : cout[i].name = "protocol"
    THEN cout[CHOOSE i \in 1..Len(cout) : cout[i].name = "protocol"].arguments[1]
    ELSE 0

\* sync_to has read the reply to "protocol" and gone on
HandshakeDone == stream_pos >= 1

Min(a, b) == IF a < b THEN a ELSE b

\* C11: the version an endpoint announces lies in [7, 9], the reply it
\* accepts to "protocol" v is min(v, 9) with v >= 7, and after a successful
\* handshake the recorded version lies in
\* [EARLIEST_PROTOCOL_VERSION_SUPPORTED, LATEST_PROTOCOL_VERSION_SUPPORTED]
C11_VersionNegotiation ==
    /\ \A i \in 1..Len(cout) :
          cout[i].name = "protocol" =>
              cout[i].arguments[1] \in EARLIEST_PROTOCOL_VERSION_SUPPORTED
                                       ..LATEST_PROTOCOL_VERSION_SUPPORTED
    /\ HandshakeDone =>
          /\ Announced >= EARLIEST_PROTOCOL_VERSION_SUPPORTED
          /\ protocol = Min(Announced, LATEST_PROTOCOL_VERSION_SUPPORTED)
          /\ protocol \in EARLIEST_PROTOCOL_VERSION_SUPPORTED
                          ..LATEST_PROTOCOL_VERSION_SUPPORTED

\* a command of the given name has been written
Written(name) == \E i \in 1..Len(cout) : cout[i].name = name

\* the requests written whose reply has not been read: "protocol" and
\* "schema" are answered, "quit" is not
Outstanding ==
    Cardinality({i \in 1..Len(cout) : cout[i].name \in {"protocol", "schema"}})
    - stream_pos

\* the statements of sync_to from the introspection of the local schema on
AfterSchemaReply ==
    pc \in {"check_schema_match", "check_tables_match", "check_table_match",
            "check_columns_match", "check_primary_key_matches",
            "check_keys_match", "check_keys_loop", "returned", "thrown",
            "close", "closed"}

\* C12: in every run of sync_to at most one request is outstanding;
\* "schema" is written only after the reply to "protocol" has been read; the
\* local schema is introspected and check_schema_match run only after the
\* peer's schema has been read; "quit" is written and the streams are closed
\* only after check_schema_match has succeeded; once schema_mismatch is
\* raised no command is written any more
C12_RequestResponseOrdering ==
    /\ [](/\ Outstanding \in {0, 1}
          /\ Written("schema") => stream_pos >= 1
          /\ (AfterSchemaReply \/ to_database # Database(<<>>)) =>
                 /\ stream_pos = 2
                 /\ from_database = stream[2]
          /\ (Written("quit") \/ closed # {}) =>
                 /\ pc \in {"close", "closed"}
                 /\ mismatch = NoMismatch
                 /\ to_database = client
                 /\ check_schema_match(from_database, to_database, {}, {})
                        = NoMismatch
          /\ closed # {} => Written("quit")
          /\ pc = "thrown" =>
                 /\ mismatch # NoMismatch
                 /\ ~Written("quit")
                 /\ closed = {})
    /\ [][/\ cout' # cout => Outstanding = 0
          /\ pc = "thrown" => cout' = cout /\ closed' = closed]_vars

\* a run that went through to the end over a peer schema of two tables
C12_Witness ==
    /\ pc = "closed"
    /\ Len(from_database.tables) = 2
    /\ cout = <<Command("protocol", <<PROTOCOL_VERSION_SUPPORTED>>),
                Command("schema", <<>>), Command("quit", <<>>)>>
    /\ closed = {"STDOUT_FILENO", "STDIN_FILENO"}

(***************************************************************************)
(* The PostgreSQL adapter (ks_postgresql.cpp).  Each operation of          *)
(* PostgreSQLClient is an action over the adapter's variables; the walk    *)
(* and sync_to stand still meanwhile.                                      *)
(***************************************************************************)
walkVars == <<from_database, to_database, ignore_tables, only_tables,
              from_tables, to_tables, from_table, to_table,
              from_column, to_column, from_keys, to_keys, from_key, to_key,
              pc, mismatch>>

\* neither check_schema_match nor sync_to is running
NoWalk ==
    /\ from_database = Database(<<>>)
    /\ to_database = Database(<<>>)
    /\ ignore_tables = {}
    /\ only_tables = {}
    /\ WalkLocals
    /\ pc = "idle"

\* the same with the two size tests made before the unsigned test
convert_column_sizes_first(column) ==
    LET sized_1 == IF column.column_type = "INT" /\ column.size = 1
                   THEN [column EXCEPT !.size = 2] ELSE column
        sized_3 == IF sized_1.column_type = "INT" /\ sized_1.size = 3
                   THEN [sized_1 EXCEPT !.size = 4] ELSE sized_1
        signed == IF sized_3.column_type = "INT UNSIGNED"
                  THEN [sized_3 EXCEPT !.column_type = "INT"] ELSE sized_3
    IN  IF signed.column_type = "TEXT" \/ signed.column_type = "BLOB"
        THEN [signed EXCEPT !.size = 0] ELSE signed

\* convert_unsupported_database_schema, the body of the loop over the
\* columns: four ifs in a row, each seeing what the ones before it did
convert_column(column) ==
    LET signed == IF column.column_type = "INT UNSIGNED"
                  THEN [column EXCEPT !.column_type = "INT"] ELSE column
        sized_1 == IF signed.column_type = "INT" /\ signed.size = 1
                   THEN [signed EXCEPT !.size = 2] ELSE signed
        sized_3 == IF sized_1.column_type = "INT" /\ sized_1.size = 3
                   THEN [sized_1 EXCEPT !.size = 4] ELSE sized_1
    IN  IF sized_3.column_type = "TEXT" \/ sized_3.column_type = "BLOB"
        THEN [sized_3 EXCEPT !.size = 0] ELSE sized_3

\* string::substr(pos, count): count characters from the 0-based pos, or
\* as many as there are
substr(string, pos, count) ==
    SubSeq(string, pos + 1,
           IF pos + count < Len(string) THEN pos + count ELSE Len(string))

\* convert_unsupported_database_schema, the body of the loop over the keys
convert_key(key) ==
    IF Len(key.name) >= 63
    THEN [key EXCEPT !.name = substr(key.name, 0, 63)]
    ELSE key

\* convert_unsupported_database_schema, the body of the loop over the tables
convert_table(t) ==
    [t EXCEPT !.columns = [c \in 1..Len(t.columns) |-> convert_column(t.columns[c])],
              !.keys = [k \in 1..Len(t.keys) |-> convert_key(t.keys[k])]]

convert_unsupported_database_schema(db) ==
    [db EXCEPT !.tables = [t \in 1..Len(db.tables) |-> convert_table(db.tables[t])]]

\* client.convert_unsupported_database_schema(database): in place
ConvertUnsupportedDatabaseSchema ==
    /\ pg_pc = "convert_unsupported_database_schema"
    /\ database' = convert_unsupported_database_schema(database)
    /\ pg_pc' = "returned"
    /\ UNCHANGED <<walkVars, endpointVars, resVars, pg_input, pg_table, rows, executed,
                   result, pg_error>>

NextConvert == ConvertUnsupportedDatabaseSchema

\* seventy characters, no two alike
SeventyCharacters ==
    "0123456789abcdefghijklmnopqrstuvwxyzABCDEFGHIJKLMNOPQRSTUVWXYZ_$#@!%^&"

\* the lengths of key names around PostgreSQL's limit for index names
KeyNameLengths == {1, 62, 63, 64, 70}

\* the columns another engine may declare: any of these types, in any of
\* these sizes
ForeignColumnTypes == {"INT UNSIGNED", "INT", "TEXT", "BLOB", "VARCHAR"}
ForeignColumnSizes == {1, 2, 3, 4}

ForeignColumns(names) ==
    {[i \in 1..Len(names) |-> Column(names[i], types[i], sizes[i])] :
        types \in [1..Len(names) -> ForeignColumnTypes],
        sizes \in [1..Len(names) -> ForeignColumnSizes]}

\* one table T of up to MaxColumns such columns, with no key or one key of
\* a name of any of the lengths
ForeignTables ==
    {Table("T", columns, <<0>>, "explicit_primary_key", keys) :
        columns \in UNION {ForeignColumns(SubSeq(<<"x", "y", "z">>, 1, n)) :
                              n \in 1..MaxColumns},
        keys \in {<<>>} \cup {<<Key(substr(SeventyCharacters, 0, n),
                                    "standard_key", <<0>>)>> :
                                 n \in KeyNameLengths}}

\* convert_unsupported_database_schema is called on another engine's schema
InitConvert ==
    /\ NoWalk
    /\ NoEndpoint
    /\ NoResult
    /\ \E t \in ForeignTables :
          /\ pg_input = Database(<<t>>)
          /\ database = Database(<<t>>)
    /\ pg_pc = "convert_unsupported_database_schema"
    /\ pg_table = Table("", <<>>, <<>>, "no_available_key", <<>>)
    /\ rows = <<>>
    /\ executed = <<>>
    /\ result = ""
    /\ pg_error = ""

SpecConvert == InitConvert /\ [][NextConvert]_vars

\* the first 63 bytes of a name
First63(name) == substr(name, 0, 63)

\* C13: after convert_unsupported_database_schema no column is UnsignedInt,
\* no SignedInt column has size 1 or 3 (also one that was UnsignedInt
\* before), every TEXT and BLOB column has size 0, and every key name is at
\* most 63 bytes long and is the first 63 bytes of the name it had
C13_Normalization ==
    (pg_pc = "returned" /\ pg_input # <<>>) =>
        /\ Len(database.tables) = Len(pg_input.tables)
        /\ \A t \in 1..Len(database.tables) :
              /\ Len(database.tables[t].columns) = Len(pg_input.tables[t].columns)
              /\ Len(database.tables[t].keys) = Len(pg_input.tables[t].keys)
              /\ \A c \in 1..Len(database.tables[t].columns) :
                    LET column == database.tables[t].columns[c]
                    IN  /\ column.column_type # "INT UNSIGNED"
                        /\ ~(column.column_type = "INT" /\ column.size \in {1, 3})
                        /\ column.column_type \in {"TEXT", "BLOB"} => column.size = 0
              /\ \A k \in 1..Len(database.tables[t].keys) :
                    /\ Len(database.tables[t].keys[k].name) <= 63
                    /\ database.tables[t].keys[k].name
                           = First63(pg_input.tables[t].keys[k].name)

\* an UnsignedInt column of size 1 and a key name of 64 bytes were converted
C13_Witness ==
    /\ pg_pc = "returned"
    /\ pg_input # <<>>
    /\ pg_input.tables[1].columns[1].column_type = "INT UNSIGNED"
    /\ pg_input.tables[1].columns[1].size = 1
    /\ database.tables[1].columns[1].column_type = "INT"
    /\ database.tables[1].columns[1].size = 2
    /\ Len(pg_input.tables[1].keys) = 1
    /\ Len(pg_input.tables[1].keys[1].name) = 64
    /\ Len(database.tables[1].keys[1].name) = 63

(***************************************************************************)
(* PostgreSQLColumnLister: one row of the columns query (attname,          *)
(* format_type, attnotnull, atthasdef, pg_get_expr) becomes one Column.    *)
(* Strings are handled character by character, as std::string does.       *)
(***************************************************************************)
\* string[n], n counted from 0; string[size()] is the terminating NUL
NUL == "<NUL>"
at(string, n) == IF n < Len(string) THEN SubSeq(string, n + 1, n + 1) ELSE NUL

\* string::substr(pos): from the 0-based pos to the end
substr_from(string, pos) == SubSeq(string, pos + 1, Len(string))

\* string::find(c) and string::rfind(c): the 0-based place of the first and
\* the last c, -1 standing for npos
find(string, c) ==
    IF \E n \in 0..(Len(string) - 1) : at(string, n) = c
    THEN CHOOSE n \in 0..(Len(string) - 1) :
             /\ at(string, n) = c
             /\ \A m \in 0..(n - 1) : at(string, m) # c
    ELSE -1

rfind(string, c) ==
    IF \E n \in 0..(Len(string) - 1) : at(string, n) = c
    THEN CHOOSE n \in 0..(Len(string) - 1) :
             /\ at(string, n) = c
             /\ \A m \in (n + 1)..(Len(string) - 1) : at(string, m) # c
    ELSE -1

\* string::find_first_not_of(characters) != string::npos
has_other_than(string, characters) ==
    \E n \in 0..(Len(string) - 1) :
        \A m \in 0..(Len(characters) - 1) : at(string, n) # at(characters, m)

\* substr(pos, count) with a count computed in size_t: below zero it wraps
\* to a huge number, which is to the end
substr_size_t(string, pos, count) ==
    IF count < 0 THEN substr_from(string, pos) ELSE substr(string, pos, count)

\* unescape_string_value: the loop from position n on
RECURSIVE unescape_from(_, _)
unescape_from(escaped, n) ==
    IF n >= Len(escaped) THEN ""
    ELSE LET m == IF at(escaped, n) = "\\" \/ at(escaped, n) = "'"
                  THEN n + 1 ELSE n
         IN  at(escaped, m) \o unescape_from(escaped, m + 1)

unescape_string_value(escaped) == unescape_from(escaped, 0)

\* the same, leaving the quoted zero-argument functions as they come
portable_expression_quoted(default_value) ==
    IF default_value = "now()" THEN "CURRENT_TIMESTAMP"
    ELSE IF default_value = "('now'::text)::date" THEN "CURRENT_DATE"
    ELSE default_value

\* the names PostgreSQL prints for the SQL-reserved functions, made
\* portable again
portable_expression(default_value) ==
    IF default_value = "now()" THEN "CURRENT_TIMESTAMP"
    ELSE IF default_value = "('now'::text)::date" THEN "CURRENT_DATE"
    ELSE IF \/ default_value = "\"current_schema\"()"
            \/ default_value = "\"current_user\"()"
            \/ default_value = "\"session_user\"()"
    THEN substr(default_value, 1, Len(default_value) - 4)
    ELSE default_value

\* the default of a column that has one (atthasdef is 't'): the chain of
\* tests on the text of pg_get_expr
parse_default(db_type, text) ==
    IF /\ Len(text) > 20
       /\ substr(text, 0, 9) = "nextval('"
       /\ substr(text, Len(text) - 12, 12) = "'::regclass)"
    THEN [default_type |-> "sequence", default_value |-> ""]
    ELSE IF /\ substr(text, 0, 6) = "NULL::"
            /\ substr(db_type, 0, Len(text) - 6) = substr_from(text, 6)
    THEN [default_type |-> "default_expression", default_value |-> "NULL"]
    ELSE IF Len(text) > 2 /\ at(text, 0) = "'"
    THEN [default_type |-> "default_value",
          default_value |->
              unescape_string_value(substr_size_t(text, 1, rfind(text, "'") - 1))]
    ELSE IF /\ Len(text) > 0
            /\ text # "false"
            /\ text # "true"
            /\ has_other_than(text, "0123456789.")
    THEN [default_type |-> "default_expression",
          default_value |-> portable_expression(text)]
    ELSE [default_type |-> "default_value", default_value |-> text]

\* the default of the row: none unless atthasdef is 't'
row_default(row) ==
    IF row.atthasdef = "t"
    THEN parse_default(row.format_type, row.pg_get_expr)
    ELSE [default_type |-> "no_default", default_value |-> ""]

\* the number written in decimal digits from position pos on, 0 if none is
Digits == "0123456789"

RECURSIVE number_from(_, _, _)
number_from(string, pos, so_far) ==
    IF pos < Len(string) /\ find(Digits, at(string, pos)) >= 0
    THEN number_from(string, pos + 1, so_far * 10 + find(Digits, at(string, pos)))
    ELSE so_far

\* extract_column_length: the number after the opening bracket
extract_column_length(db_type) == number_from(db_type, find(db_type, "(") + 1, 0)

\* extract_column_scale: the number after the comma, 0 without one
extract_column_scale(db_type) ==
    IF find(db_type, ",") >= 0
    THEN number_from(db_type, find(db_type, ",") + 1, 0)
    ELSE 0

\* tolower over the characters of a string
UpperCase == "ABCDEFGHIJKLMNOPQRSTUVWXYZ"
LowerCase == "abcdefghijklmnopqrstuvwxyz"

RECURSIVE tolower(_)
tolower(string) ==
    IF string = "" THEN ""
    ELSE (IF find(UpperCase, at(string, 0)) >= 0
          THEN at(LowerCase, find(UpperCase, at(string, 0)))
          ELSE at(string, 0)) \o tolower(substr_from(string, 1))

extract_spatial_type_restriction_and_reference_system(type_restriction) ==
    LET lower == tolower(type_restriction)
        comma_pos == find(lower, ",")
    IN  IF comma_pos = -1
        THEN <<lower, "">>
        ELSE <<IF substr(lower, 0, comma_pos) = "geometry"
               THEN "" ELSE substr(lower, 0, comma_pos),
               substr_from(lower, comma_pos + 1)>>

\* the chain of tests on format_type: the emplace_back of the branch taken,
\* as far as the type decides it
column_of_type(name, db_type) ==
    IF db_type = "boolean" THEN Column(name, "BOOL", 0)
    ELSE IF db_type = "smallint" THEN Column(name, "INT", 2)
    ELSE IF db_type = "integer" THEN Column(name, "INT", 4)
    ELSE IF db_type = "bigint" THEN Column(name, "INT", 8)
    ELSE IF db_type = "real" THEN Column(name, "REAL", 4)
    ELSE IF db_type = "double precision" THEN Column(name, "REAL", 8)
    ELSE IF substr(db_type, 0, 8) = "numeric("
    THEN [Column(name, "DECIMAL", extract_column_length(db_type))
              EXCEPT !.scale = extract_column_scale(db_type)]
    ELSE IF substr(db_type, 0, 7) = "numeric" THEN Column(name, "DECIMAL", 0)
    ELSE IF substr(db_type, 0, 18) = "character varying("
    THEN Column(name, "VARCHAR", extract_column_length(db_type))
    ELSE IF substr(db_type, 0, 18) = "character varying" THEN Column(name, "VARCHAR", 0)
    ELSE IF substr(db_type, 0, 10) = "character("
    THEN Column(name, "CHAR", extract_column_length(db_type))
    ELSE IF db_type = "text" THEN Column(name, "TEXT", 0)
    ELSE IF db_type = "bytea" THEN Column(name, "BLOB", 0)
    ELSE IF db_type = "uuid" THEN Column(name, "UUID", 0)
    ELSE IF db_type = "date" THEN Column(name, "DATE", 0)
    ELSE IF db_type = "time without time zone" THEN Column(name, "TIME", 0)
    ELSE IF db_type = "time with time zone"
    THEN [Column(name, "TIME", 0) EXCEPT !.flags = {"time_zone"}]
    ELSE IF db_type = "timestamp without time zone" THEN Column(name, "DATETIME", 0)
    ELSE IF db_type = "timestamp with time zone"
    THEN [Column(name, "DATETIME", 0) EXCEPT !.flags = {"time_zone"}]
    ELSE IF db_type = "geometry" THEN Column(name, "SPATIAL", 0)
    ELSE IF substr(db_type, 0, 9) = "geometry("
    THEN LET spatial == extract_spatial_type_restriction_and_reference_system(
                            substr(db_type, 9, Len(db_type) - 10))
         IN  [Column(name, "SPATIAL", 0) EXCEPT !.type_restriction = spatial[1],
                                  !.reference_system = spatial[2]]
    ELSE [Column(name, "UNKNOWN", 0) EXCEPT !.db_type_def = db_type]

\* PostgreSQLColumnLister::operator(): the Column one row becomes, with the
\* nullability and the default of the row
column_of_row(row) ==
    [column_of_type(row.attname, row.format_type)
         EXCEPT !.nullable = (row.attnotnull = "f"),
                !.default_type = row_default(row).default_type,
                !.default_value = row_default(row).default_value]

\* the columns query hands its next row to the PostgreSQLColumnLister,
\* which appends one Column to table.columns
ColumnLister ==
    /\ pg_pc = "columns"
    /\ rows # <<>>
    /\ pg_table' = [pg_table EXCEPT !.columns = Append(@, column_of_row(Head(rows)))]
    /\ rows' = Tail(rows)
    /\ UNCHANGED <<walkVars, endpointVars, resVars, pg_pc, pg_input, database, executed,
                   result, pg_error>>

NextColumnLister == ColumnLister

\* a row of the columns query
Row(attname, format_type, attnotnull, atthasdef, pg_get_expr) ==
    [attname |-> attname, format_type |-> format_type, attnotnull |-> attnotnull,
     atthasdef |-> atthasdef, pg_get_expr |-> pg_get_expr]

\* what format_type prints for the types the lister tests for
RecognisedTypes ==
    {"boolean", "smallint", "integer", "bigint", "real", "double precision",
     "numeric(10,2)", "numeric", "character varying(10)", "character varying",
     "character(3)", "text", "bytea", "uuid", "date",
     "time without time zone", "time with time zone",
     "timestamp without time zone", "timestamp with time zone",
     "geometry", "geometry(Point,4326)"}

\* and for some it does not test for
OtherTypes ==
    {"numeric[]", "character varying[]", "integer[]", "text[]", "jsonb",
     "interval", "money", "character varying(10)[]", "numeric(10,2)[]"}

\* a column type with the text pg_get_expr prints for a default on it
TypedDefaults ==
    {<<"integer", "nextval('t_id_seq'::regclass)">>,
     <<"bigint", "nextval('s'::regclass)">>,
     <<"character varying(10)", "NULL::character varying">>,
     <<"character(3)", "NULL::bpchar">>,
     <<"integer", "NULL::integer">>,
     <<"text", "NULL::text">>,
     <<"numeric(10,2)", "NULL::numeric">>,
     <<"timestamp without time zone", "NULL::timestamp without time zone">>,
     <<"timestamp without time zone", "now()">>,
     <<"timestamp with time zone", "now()">>,
     <<"date", "('now'::text)::date">>,
     <<"text", "\"current_schema\"()">>,
     <<"text", "\"current_user\"()">>,
     <<"character varying(10)", "\"session_user\"()">>,
     <<"character varying(10)", "'abc'::character varying">>,
     <<"text", "'it''s'::text">>,
     <<"text", "''::text">>,
     <<"integer", "42">>,
     <<"integer", "'-1'::integer">>,
     <<"integer", "(1 + 2)">>,
     <<"numeric(10,2)", "4.5">>,
     <<"boolean", "true">>,
     <<"boolean", "false">>,
     <<"uuid", "gen_random_uuid()">>}

\* the rows of the query for a table of n columns: plain integer columns,
\* and last a column of any of the types, with or without a default
ColumnRows(n) ==
    LET names == <<"x", "y", "z", "k">>
        plain(i) == Row(names[i], "integer", "t", "f", "")
    IN  {[i \in 1..n |-> IF i < n THEN plain(i) ELSE last] :
            last \in {Row(names[n], t, notnull, "f", "") :
                         t \in RecognisedTypes \cup OtherTypes, notnull \in {"t", "f"}}
                     \cup {Row(names[n], d[1], notnull, "t", d[2]) :
                              d \in TypedDefaults, notnull \in {"t", "f"}}}

\* the columns query of PostgreSQLTableLister has run for table T; its rows
\* wait for the PostgreSQLColumnLister
InitColumnLister ==
    /\ NoWalk
    /\ NoEndpoint
    /\ NoResult
    /\ \E n \in 1..MaxColumns : \E query_rows \in ColumnRows(n) :
          /\ pg_input = query_rows
          /\ rows = query_rows
    /\ pg_pc = "columns"
    /\ pg_table = Table("T", <<>>, <<>>, "no_available_key", <<>>)
    /\ database = Database(<<>>)
    /\ executed = <<>>
    /\ result = ""
    /\ pg_error = ""

SpecColumnLister == InitColumnLister /\ [][NextColumnLister]_vars

\* the rows handled so far, each with the column it became
Listed == 1..Len(pg_table.columns)

\* the text has the form NULL::TYPE
IsNullCast(text) == Len(text) > 6 /\ substr(text, 0, 6) = "NULL::"

\* C14: every introspected column that has a default whose pg_get_expr text
\* has the form NULL::TYPE, for any TYPE, is recorded with default kind
\* Expression and default_value exactly "NULL"
C14_NullDefault ==
    \A i \in Listed :
        (pg_input[i].atthasdef = "t" /\ IsNullCast(pg_input[i].pg_get_expr)) =>
            /\ pg_table.columns[i].default_type = "default_expression"
            /\ pg_table.columns[i].default_value = "NULL"

\* the text has the form nextval('<name>'::regclass)
IsNextval(text) ==
    /\ Len(text) >= Len("nextval('") + Len("'::regclass)")
    /\ SubSeq(text, 1, Len("nextval('")) = "nextval('"
    /\ SubSeq(text, Len(text) - Len("'::regclass)") + 1, Len(text)) = "'::regclass)"

\* column i was recorded with this default
DefaultIs(i, default_type, default_value) ==
    /\ pg_table.columns[i].default_type = default_type
    /\ pg_table.columns[i].default_value = default_value

\* C15: nextval('<name>'::regclass) is recorded as default kind Sequence
\* with an empty default_value; now() as Expression "CURRENT_TIMESTAMP";
\* ('now'::text)::date as Expression "CURRENT_DATE"; "current_schema"(),
\* "current_user"() and "session_user"() as Expression with the bare
\* function name; and a column whose atthasdef is false as NoDefault with an
\* empty default_value
C15_PortableDefaults ==
    \A i \in Listed :
        LET text == pg_input[i].pg_get_expr
        IN  IF pg_input[i].atthasdef = "t"
            THEN /\ IsNextval(text) => DefaultIs(i, "sequence", "")
                 /\ text = "now()" =>
                        DefaultIs(i, "default_expression", "CURRENT_TIMESTAMP")
                 /\ text = "('now'::text)::date" =>
                        DefaultIs(i, "default_expression", "CURRENT_DATE")
                 /\ text = "\"current_schema\"()" =>
                        DefaultIs(i, "default_expression", "current_schema")
                 /\ text = "\"current_user\"()" =>
                        DefaultIs(i, "default_expression", "current_user")
                 /\ text = "\"session_user\"()" =>
                        DefaultIs(i, "default_expression", "session_user")
            ELSE DefaultIs(i, "no_default", "")

\* the second column of a table came with the default "current_user"() and
\* was listed
C15_Witness ==
    /\ pg_pc = "columns"
    /\ Len(pg_table.columns) = 2
    /\ pg_input[2].atthasdef = "t"
    /\ pg_input[2].pg_get_expr = "\"current_user\"()"
    /\ pg_table.columns[2].default_value = "current_user"

\* the type name is the given one followed by arguments in brackets
HasArguments(db_type, type_name) ==
    /\ Len(db_type) > Len(type_name) + 2
    /\ SubSeq(db_type, 1, Len(type_name) + 1) = type_name \o "("
    /\ SubSeq(db_type, Len(db_type), Len(db_type)) = ")"

\* the forms of format_type the lister is to recognise
Recognised(db_type) ==
    \/ db_type \in {"boolean", "smallint", "integer", "bigint", "real",
                    "double precision", "numeric", "character varying", "text",
                    "bytea", "uuid", "date", "time without time zone",
                    "time with time zone", "timestamp without time zone",
                    "timestamp with time zone", "geometry"}
    \/ HasArguments(db_type, "numeric")
    \/ HasArguments(db_type, "character varying")
    \/ HasArguments(db_type, "character")
    \/ HasArguments(db_type, "geometry")

\* C17: every format_type string that is none of the recognised forms, such
\* as the array types numeric[] and character varying[], yields exactly one
\* column, of kind Unknown, whose db_type_def is the raw string
C17_UnknownTypeFallback ==
    /\ Len(pg_table.columns) + Len(rows) = Len(pg_input)
    /\ \A i \in Listed :
          ~Recognised(pg_input[i].format_type) =>
              /\ pg_table.columns[i].column_type = "UNKNOWN"
              /\ pg_table.columns[i].db_type_def = pg_input[i].format_type

(***************************************************************************)
(* column_definition and column_default: the DDL text of a column.  An     *)
(* operation yields [result, error]; error is what() of the runtime_error  *)
(* thrown, "" when the operation returned.                                 *)
(***************************************************************************)
Returned(string) == [result |-> string, error |-> ""]
Thrown(what) == [result |-> "", error |-> what]

\* std::to_string of a number that is not negative
RECURSIVE to_string(_)
to_string(n) ==
    IF n < 10 THEN at(Digits, n)
    ELSE to_string(n \div 10) \o at(Digits, n % 10)

\* printable characters in the order of their codes: from the space (32)
\* to the underscore (95), and from a (97) to the tilde (126)
PrintableFrom32 ==
    " !\"#$%&'()*+,-./0123456789:;<=>?@ABCDEFGHIJKLMNOPQRSTUVWXYZ[\\]^_"
PrintableFrom97 == "abcdefghijklmnopqrstuvwxyz{|}~"

\* the code of a character
byte(c) ==
    IF find(PrintableFrom32, c) >= 0
    THEN find(PrintableFrom32, c) + 32
    ELSE find(PrintableFrom97, c) + 97

\* PQescapeStringConn (libpq): every single quote is doubled
RECURSIVE PQescapeStringConn(_)
PQescapeStringConn(value) ==
    IF value = "" THEN ""
    ELSE (IF at(value, 0) = "'" THEN "''" ELSE at(value, 0))
         \o PQescapeStringConn(substr_from(value, 1))

\* PQescapeByteaConn (libpq): the hex format, \x and two digits per byte
RECURSIVE hex(_)
hex(value) ==
    IF value = "" THEN ""
    ELSE at("0123456789abcdef", byte(at(value, 0)) \div 16)
         \o at("0123456789abcdef", byte(at(value, 0)) % 16)
         \o hex(substr_from(value, 1))

PQescapeByteaConn(value) == "\\x" \o hex(value)

escape_string_value(value) == PQescapeStringConn(value)

append_escaped_string_value_to(string, value) ==
    string \o "'" \o PQescapeStringConn(value) \o "'"

append_escaped_bytea_value_to(string, value) ==
    string \o "'" \o PQescapeByteaConn(value) \o "'"

\* *(uint32_t*)value.c_str(): the first four bytes, the lowest first
uint32_at_start(value) ==
    byte(at(value, 0)) + 256 * byte(at(value, 1)) + 65536 * byte(at(value, 2))
    + 16777216 * byte(at(value, 3))

append_escaped_spatial_value_to(string, value) ==
    append_escaped_bytea_value_to(string \o "ST_GeomFromWKB(", substr_from(value, 4))
    \o "," \o to_string(uint32_at_start(value)) \o ")"

append_escaped_column_value_to(string, column, value) ==
    IF column.column_type = "BLOB"
    THEN append_escaped_bytea_value_to(string, value)
    ELSE IF column.column_type = "SPATIAL"
    THEN append_escaped_spatial_value_to(string, value)
    ELSE append_escaped_string_value_to(string, value)

\* ::quote_identifier(name, '"'): the name between double quotes, a double
\* quote in it doubled
RECURSIVE quote_doubled(_)
quote_doubled(name) ==
    IF name = "" THEN ""
    ELSE (IF at(name, 0) = "\"" THEN "\"\"" ELSE at(name, 0))
         \o quote_doubled(substr_from(name, 1))

quote_identifier(name) == "\"" \o quote_doubled(name) \o "\""

column_type(column) ==
    IF column.column_type = "BLOB" THEN Returned("bytea")
    ELSE IF column.column_type = "TEXT" THEN Returned("text")
    ELSE IF column.column_type = "VARCHAR"
    THEN Returned("character varying"
                  \o IF column.size > 0
                     THEN "(" \o to_string(column.size) \o ")" ELSE "")
    ELSE IF column.column_type = "CHAR"
    THEN Returned("character(" \o to_string(column.size) \o ")")
    ELSE IF column.column_type = "UUID" THEN Returned("uuid")
    ELSE IF column.column_type = "BOOL" THEN Returned("boolean")
    ELSE IF column.column_type = "INT"
    THEN CASE column.size = 2 -> Returned("smallint")
           [] column.size = 4 -> Returned("integer")
           [] column.size = 8 -> Returned("bigint")
           [] OTHER -> Thrown("Don't know how to create integer column "
                              \o column.name \o " of size "
                              \o to_string(column.size))
    ELSE IF column.column_type = "REAL"
    THEN Returned(IF column.size = 4 THEN "real" ELSE "double precision")
    ELSE IF column.column_type = "DECIMAL"
    THEN IF column.size # 0
         THEN Returned("numeric(" \o to_string(column.size) \o ","
                       \o to_string(column.scale) \o ")")
         ELSE Returned("numeric")
    ELSE IF column.column_type = "DATE" THEN Returned("date")
    ELSE IF column.column_type = "TIME"
    THEN Returned(IF "time_zone" \in column.flags
                  THEN "time with time zone" ELSE "time without time zone")
    ELSE IF column.column_type = "DATETIME"
    THEN Returned(IF "time_zone" \in column.flags
                  THEN "timestamp with time zone"
                  ELSE "timestamp without time zone")
    ELSE IF column.column_type = "SPATIAL"
    THEN Returned("geometry"
                  \o IF column.reference_system # ""
                     THEN "(" \o (IF column.type_restriction = ""
                                  THEN "geometry" ELSE column.type_restriction)
                          \o "," \o column.reference_system \o ")"
                     ELSE IF column.type_restriction # ""
                     THEN "(" \o column.type_restriction \o ")"
                     ELSE "")
    ELSE Thrown("Don't know how to express column type of " \o column.name
                \o " (" \o column.column_type \o ")")

column_sequence_name(t, column) == t.name \o "_" \o column.name \o "_seq"

\* the enumerators' values
DefaultTypeValue(default_type) ==
    CASE default_type = "no_default" -> 0
      [] default_type = "sequence" -> 1
      [] default_type = "default_value" -> 2
      [] default_type = "default_expression" -> 3

\* the default: label of the switch in column_default
dont_know_default(column) ==
    Thrown("Don't know how to express default of " \o column.name \o " ("
           \o to_string(DefaultTypeValue(column.default_type)) \o ")")

\* column_default: case DefaultType::default_expression has no break and
\* runs on into default:, which throws
column_default(t, column) ==
    CASE column.default_type = "no_default" -> Returned(" DEFAULT " \o "NULL")
      [] column.default_type = "sequence" ->
             Returned(" DEFAULT " \o "nextval('"
                      \o escape_string_value(column_sequence_name(t, column))
                      \o "'::regclass)")
      [] column.default_type = "default_value" ->
             IF column.column_type \in {"BOOL", "INT", "INT UNSIGNED", "REAL", "DECIMAL"}
             THEN Returned(" DEFAULT " \o column.default_value)
             ELSE Returned(append_escaped_column_value_to(" DEFAULT ", column,
                                                          column.default_value))
      [] column.default_type = "default_expression" -> dont_know_default(column)
      [] OTHER -> dont_know_default(column)

\* column_definition: an exception of column_type or of column_default
\* leaves it
column_definition(t, column) ==
    LET type == column_type(column)
        default == column_default(t, column)
        start == quote_identifier(column.name) \o " " \o type.result
                 \o IF ~column.nullable THEN " NOT NULL" ELSE ""
    IN  IF type.error # "" THEN type
        ELSE IF column.default_type # "no_default"
        THEN IF default.error # "" THEN default
             ELSE Returned(start \o default.result)
        ELSE Returned(start)

\* the operation returns its string, or throws
Finish(outcome) ==
    /\ result' = outcome.result
    /\ pg_error' = outcome.error
    /\ pg_pc' = IF outcome.error = "" THEN "returned" ELSE "thrown"

\* client.column_default(table, column)
ColumnDefault ==
    /\ pg_pc = "column_default"
    /\ Finish(column_default(pg_table, pg_input))
    /\ UNCHANGED <<walkVars, endpointVars, resVars, pg_input, database, pg_table, rows,
                   executed>>

\* client.column_definition(table, column)
ColumnDefinition ==
    /\ pg_pc = "column_definition"
    /\ Finish(column_definition(pg_table, pg_input))
    /\ UNCHANGED <<walkVars, endpointVars, resVars, pg_input, database, pg_table, rows,
                   executed>>

NextColumnDefinition ==
    \/ ColumnDefault
    \/ ColumnDefinition

\* the columns the DDL is asked for: some types, nullable or not, with any
\* kind of default
DefinedTypes ==
    {Column("x", "INT", 4), Column("x", "INT", 3), Column("x", "VARCHAR", 10),
     Column("x", "TEXT", 0), Column("x", "BLOB", 0), Column("x", "BOOL", 0),
     Column("x", "DATETIME", 0), [Column("x", "DECIMAL", 10) EXCEPT !.scale = 2]}

DefinedDefaults ==
    {[default_type |-> "no_default", default_value |-> ""],
     [default_type |-> "sequence", default_value |-> ""]}
    \cup {[default_type |-> "default_value", default_value |-> v] :
             v \in {"42", "abc", "it's"}}
    \cup {[default_type |-> "default_expression", default_value |-> v] :
             v \in {"NULL", "CURRENT_TIMESTAMP", "CURRENT_DATE", "current_user",
                    "gen_random_uuid()"}}

DefinedColumns ==
    {[c EXCEPT !.nullable = nullable, !.default_type = d.default_type,
               !.default_value = d.default_value] :
        c \in DefinedTypes, nullable \in BOOLEAN, d \in DefinedDefaults}

\* column_default or column_definition is called for a column of table T
InitColumnDefinition ==
    /\ NoWalk
    /\ NoEndpoint
    /\ NoResult
    /\ pg_pc \in {"column_default", "column_definition"}
    /\ pg_input \in DefinedColumns
    /\ pg_table = Table("T", <<pg_input>>, <<>>, "no_available_key", <<>>)
    /\ database = Database(<<>>)
    /\ rows = <<>>
    /\ executed = <<>>
    /\ result = ""
    /\ pg_error = ""

SpecColumnDefinition == InitColumnDefinition /\ [][NextColumnDefinition]_vars

\* the string ends with the given one
EndsWith(string, ending) ==
    /\ Len(string) >= Len(ending)
    /\ SubSeq(string, Len(string) - Len(ending) + 1, Len(string)) = ending

\* C16: for every column whose default kind is Expression, column_default
\* (and column_definition, when the type can be expressed) returns
\* " DEFAULT " followed by the column's default_value and raises no error;
\* "Don't know how to express default" is raised only for a default kind
\* outside the four
C16_ExpressionDefault ==
    pg_pc \in {"returned", "thrown"} =>
        /\ (/\ pg_input.default_type = "default_expression"
            /\ column_type(pg_input).error = "") =>
               /\ pg_error = ""
               /\ EndsWith(result, " DEFAULT " \o pg_input.default_value)
        /\ substr(pg_error, 0, Len("Don't know how to express default"))
               = "Don't know how to express default" =>
                  pg_input.default_type \notin DefaultType

(***************************************************************************)
(* The snapshot and referential-integrity operations.  Every statement     *)
(* given to the connection is logged in executed with the status the       *)
(* server answered; the status is the server's choice.                     *)
(***************************************************************************)
ExecStatusType == {"PGRES_COMMAND_OK", "PGRES_TUPLES_OK", "PGRES_FATAL_ERROR"}

\* PQerrorMessage(conn)
PQerrorMessage == "ERROR:  statement failed\n"

sql_error(sql) ==
    IF Len(sql) < 200
    THEN PQerrorMessage \o "\n" \o sql
    ELSE PQerrorMessage \o "\n" \o substr(sql, 0, 200) \o "..."

\* an exception leaves the operation
throw(what) ==
    /\ pg_error' = what
    /\ pg_pc' = "thrown"

\* the same without the test of res.status()
execute_unchecked(sql, status, next) ==
    /\ executed' = Append(executed, [sql |-> sql, status |-> status])
    /\ pg_pc' = next
    /\ UNCHANGED pg_error

\* execute(sql), the server answering with status; the operation goes on
\* at next unless execute throws
execute(sql, status, next) ==
    /\ executed' = Append(executed, [sql |-> sql, status |-> status])
    /\ IF status # "PGRES_COMMAND_OK" /\ status # "PGRES_TUPLES_OK"
       THEN throw(sql_error(sql))
       ELSE pg_pc' = next /\ UNCHANGED pg_error

\* select_one(sql), the server answering with status and, when that is
\* PGRES_TUPLES_OK, with the given values of a single column
select_one(sql, status, tuples) ==
    /\ executed' = Append(executed, [sql |-> sql, status |-> status])
    /\ IF status # "PGRES_TUPLES_OK"
       THEN throw(sql_error(sql)) /\ UNCHANGED result
       ELSE IF Len(tuples) # 1
       THEN /\ throw("Expected query to return only one row with only one column\n"
                     \o sql)
            /\ UNCHANGED result
       ELSE /\ result' = tuples[1]
            /\ pg_pc' = "idle"
            /\ UNCHANGED pg_error

\* the snapshot identifiers a server hands out or is given
Snapshots == {"00000003-1", "a'b"}

\* the operations of the client that are called here, with their arguments
Operations ==
    {<<"export_snapshot">>, <<"unhold_snapshot">>,
     <<"disable_referential_integrity">>, <<"enable_referential_integrity">>}
    \cup {<<"import_snapshot", snapshot>> : snapshot \in Snapshots}

\* an operation is called on the client
Call ==
    /\ pg_pc = "idle"
    /\ Len(executed) < MaxStatements
    /\ \E operation \in Operations :
          /\ pg_pc' = operation[1]
          /\ pg_input' = operation
    /\ UNCHANGED <<walkVars, endpointVars, resVars, database, pg_table, rows, executed,
                   result, pg_error>>

\* export_snapshot: execute("START TRANSACTION ...")
ExportSnapshotStart ==
    /\ pg_pc = "export_snapshot"
    /\ \E status \in ExecStatusType :
          execute("START TRANSACTION READ ONLY ISOLATION LEVEL REPEATABLE READ",
                  status, "export_snapshot_select")
    /\ UNCHANGED <<walkVars, endpointVars, resVars, pg_input, database, pg_table, rows,
                   result>>

\* export_snapshot: return select_one("SELECT pg_export_snapshot()")
ExportSnapshotSelect ==
    /\ pg_pc = "export_snapshot_select"
    /\ \E status \in ExecStatusType :
          \E tuples \in {<<>>} \cup {<<snapshot>> : snapshot \in Snapshots} :
             select_one("SELECT pg_export_snapshot()", status, tuples)
    /\ UNCHANGED <<walkVars, endpointVars, resVars, pg_input, database, pg_table, rows>>

\* import_snapshot: execute("START TRANSACTION ...")
ImportSnapshotStart ==
    /\ pg_pc = "import_snapshot"
    /\ \E status \in ExecStatusType :
          execute("START TRANSACTION READ ONLY ISOLATION LEVEL REPEATABLE READ",
                  status, "import_snapshot_set")
    /\ UNCHANGED <<walkVars, endpointVars, resVars, pg_input, database, pg_table, rows,
                   result>>

\* import_snapshot: execute("SET TRANSACTION SNAPSHOT '...'")
ImportSnapshotSet ==
    /\ pg_pc = "import_snapshot_set"
    /\ \E status \in ExecStatusType :
          execute("SET TRANSACTION SNAPSHOT '" \o escape_string_value(pg_input[2])
                  \o "'", status, "idle")
    /\ UNCHANGED <<walkVars, endpointVars, resVars, pg_input, database, pg_table, rows,
                   result>>

\* unhold_snapshot: does nothing
UnholdSnapshot ==
    /\ pg_pc = "unhold_snapshot"
    /\ pg_pc' = "idle"
    /\ UNCHANGED <<walkVars, endpointVars, resVars, pg_input, database, pg_table, rows,
                   executed, result, pg_error>>

\* disable_referential_integrity: execute("SET CONSTRAINTS ALL DEFERRED")
DisableReferentialIntegrity ==
    /\ pg_pc = "disable_referential_integrity"
    /\ \E status \in ExecStatusType :
          execute("SET CONSTRAINTS ALL DEFERRED", status, "idle")
    /\ UNCHANGED <<walkVars, endpointVars, resVars, pg_input, database, pg_table, rows,
                   result>>

\* enable_referential_integrity: does nothing
EnableReferentialIntegrity ==
    /\ pg_pc = "enable_referential_integrity"
    /\ pg_pc' = "idle"
    /\ UNCHANGED <<walkVars, endpointVars, resVars, pg_input, database, pg_table, rows,
                   executed, result, pg_error>>

NextSnapshot ==
    \/ Call
    \/ ExportSnapshotStart
    \/ ExportSnapshotSelect
    \/ ImportSnapshotStart
    \/ ImportSnapshotSet
    \/ UnholdSnapshot
    \/ DisableReferentialIntegrity
    \/ EnableReferentialIntegrity

\* a connected client on which nothing has been called
InitSnapshot ==
    /\ NoWalk
    /\ NoEndpoint
    /\ NoAdapter
    /\ NoResult

SpecSnapshot == InitSnapshot /\ [][NextSnapshot]_vars

StartTransaction == "START TRANSACTION READ ONLY ISOLATION LEVEL REPEATABLE READ"

\* the statement exports or imports a snapshot
IsSnapshotStatement(sql) ==
    \/ sql = "SELECT pg_export_snapshot()"
    \/ substr(sql, 0, Len("SET TRANSACTION SNAPSHOT '")) = "SET TRANSACTION SNAPSHOT '"

\* C18: export_snapshot and import_snapshot first issue START TRANSACTION
\* READ ONLY ISOLATION LEVEL REPEATABLE READ and only then their snapshot
\* statement; when START TRANSACTION fails the snapshot statement is never
\* issued; unhold_snapshot and enable_referential_integrity issue no
\* statement
C18_SnapshotOrdering ==
    /\ [](\A i \in 1..Len(executed) :
             IsSnapshotStatement(executed[i].sql) =>
                 /\ i > 1
                 /\ executed[i - 1].sql = StartTransaction
                 /\ executed[i - 1].status \in {"PGRES_COMMAND_OK", "PGRES_TUPLES_OK"})
    /\ [][/\ pg_pc \in {"export_snapshot", "import_snapshot"} =>
                 /\ Len(executed') = Len(executed) + 1
                 /\ executed'[Len(executed')].sql = StartTransaction
          /\ pg_pc \in {"unhold_snapshot", "enable_referential_integrity"} =>
                 executed' = executed
          /\ (pg_pc = "thrown" \/ pg_error # "") => executed' = executed]_vars

\* a snapshot with a quote in its name was imported
C18_Witness ==
    /\ pg_pc = "idle"
    /\ Len(executed) = 2
    /\ executed[1] = [sql |-> StartTransaction, status |-> "PGRES_COMMAND_OK"]
    /\ executed[2] = [sql |-> "SET TRANSACTION SNAPSHOT 'a''b'",
                      status |-> "PGRES_COMMAND_OK"]

(***************************************************************************)
(* PostgreSQLTableLister: the primary key query and its lister.  The       *)
(* catalog is an input: the rows of information_schema.table_constraints   *)
(* and of information_schema.key_column_usage.                             *)
(***************************************************************************)
\* the rows the primary key query selects for a table: every pair of a
\* table_constraints row and a key_column_usage row that passes the WHERE
\* clause; the select list is the column_name of the latter
primary_key_query(catalog, table_name) ==
    {[table_constraints |-> tc, key_column_usage |-> kcu] :
        tc \in {c \in catalog.table_constraints :
                   c.table_name = table_name /\ c.constraint_type = "PRIMARY KEY"},
        kcu \in {u \in catalog.key_column_usage : u.table_name = table_name}}

\* ORDER BY ordinal_position: the orders the selected rows may come in
RECURSIVE order_by_ordinal_position(_)
order_by_ordinal_position(selected) ==
    IF selected = {} THEN {<<>>}
    ELSE UNION {{<<first>> \o others :
                    others \in order_by_ordinal_position(selected \ {first})} :
                first \in {r \in selected :
                              \A o \in selected :
                                  r.key_column_usage.ordinal_position
                                      <= o.key_column_usage.ordinal_position}}

\* Table::index_of_column: the 0-based place of the column of that name
index_of_column(t, name) ==
    (CHOOSE i \in 1..Len(t.columns) : t.columns[i].name = name) - 1

\* client.query(primary key query, primary_key_lister): the server answers
\* with the rows in one of the orders
PrimaryKeyQuery ==
    /\ pg_pc = "primary_key_query"
    /\ rows' \in order_by_ordinal_position(primary_key_query(pg_input, pg_table.name))
    /\ pg_pc' = "primary_key_lister"
    /\ UNCHANGED <<walkVars, endpointVars, resVars, pg_input, database, pg_table, executed,
                   result, pg_error>>

\* PostgreSQLPrimaryKeyLister::operator() called with the next row
PrimaryKeyLister ==
    /\ pg_pc = "primary_key_lister"
    /\ rows # <<>>
    /\ LET column_name == Head(rows).key_column_usage.column_name
           column_index == index_of_column(pg_table, column_name)
       IN  pg_table' = [pg_table EXCEPT
                           !.primary_key_columns = Append(@, column_index),
                           !.primary_key_type = "explicit_primary_key"]
    /\ rows' = Tail(rows)
    /\ UNCHANGED <<walkVars, endpointVars, resVars, pg_pc, pg_input, database, executed,
                   result, pg_error>>

NextPrimaryKey ==
    \/ PrimaryKeyQuery
    \/ PrimaryKeyLister

\* the names of the columns of table T
ListedColumnNames == SubSeq(<<"x", "y", "z", "k">>, 1, MaxColumns)

\* the column lists a constraint may cover: one or two columns
ConstraintColumns ==
    {c \in DistinctSeqs(Range(ListedColumnNames), 2) : c # <<>>}

\* the key_column_usage rows of a constraint
KeyColumnUsage(table_name, constraint_name, columns) ==
    {[table_name |-> table_name, constraint_name |-> constraint_name,
      column_name |-> columns[i], ordinal_position |-> i] : i \in 1..Len(columns)}

\* the catalogs: table T has a primary key or none, a unique constraint or
\* none, a foreign key or none; table U has a primary key
Catalogs ==
    {[table_constraints |->
          {[table_name |-> "U", constraint_name |-> "U_pkey",
            constraint_type |-> "PRIMARY KEY"]}
          \cup {[table_name |-> "T", constraint_name |-> n[1], constraint_type |-> n[2]] :
                   n \in {c \in {<<"T_pkey", "PRIMARY KEY", primary>>,
                                 <<"T_key", "UNIQUE", uniq>>,
                                 <<"T_fkey", "FOREIGN KEY", foreign>>} : c[3] # <<>>}},
      key_column_usage |->
          KeyColumnUsage("U", "U_pkey", <<"x">>)
          \cup KeyColumnUsage("T", "T_pkey", primary)
          \cup KeyColumnUsage("T", "T_key", uniq)
          \cup KeyColumnUsage("T", "T_fkey", foreign)] :
        primary \in ConstraintColumns \cup {<<>>},
        uniq \in ConstraintColumns \cup {<<>>},
        foreign \in {c \in ConstraintColumns : Len(c) = 1} \cup {<<>>}}

\* PostgreSQLTableLister::operator() has listed the columns of table T and
\* comes to the primary key query
InitPrimaryKey ==
    /\ NoWalk
    /\ NoEndpoint
    /\ NoResult
    /\ pg_input \in Catalogs
    /\ pg_table = Table("T", IntColumns(ListedColumnNames), <<>>,
                        "no_available_key", <<>>)
    /\ pg_pc = "primary_key_query"
    /\ database = Database(<<>>)
    /\ rows = <<>>
    /\ executed = <<>>
    /\ result = ""
    /\ pg_error = ""

SpecPrimaryKey == InitPrimaryKey /\ [][NextPrimaryKey]_vars

\* the columns of the PRIMARY KEY constraint of table T in ordinal position
\* order, as 0-based indices into the columns of T
PrimaryKeyConstraintColumns ==
    LET usage == {u \in pg_input.key_column_usage :
                     /\ u.table_name = pg_table.name
                     /\ \E c \in pg_input.table_constraints :
                           /\ c.table_name = u.table_name
                           /\ c.constraint_name = u.constraint_name
                           /\ c.constraint_type = "PRIMARY KEY"}
    IN  [i \in 1..Cardinality(usage) |->
            index_of_column(pg_table,
                (CHOOSE u \in usage : u.ordinal_position = i).column_name)]

\* C19: primary_key_columns lists exactly the columns of the table's
\* PRIMARY KEY constraint, each once, in ordinal position order, also when
\* the table has unique or foreign key constraints in key_column_usage;
\* every index is below columns.size(); primary_key_type is
\* explicit_primary_key if and only if primary_key_columns is not empty
C19_PrimaryKeyIntrospection ==
    (pg_pc = "primary_key_lister" /\ rows = <<>>) =>
        /\ pg_table.primary_key_columns = PrimaryKeyConstraintColumns
        /\ \A i, j \in 1..Len(pg_table.primary_key_columns) :
              i # j => pg_table.primary_key_columns[i] # pg_table.primary_key_columns[j]
        /\ \A i \in 1..Len(pg_table.primary_key_columns) :
              pg_table.primary_key_columns[i] < Len(pg_table.columns)
        /\ pg_table.primary_key_type = "explicit_primary_key"
               <=> pg_table.primary_key_columns # <<>>
        /\ pg_table.primary_key_columns = <<>>
               => pg_table.primary_key_type = "no_available_key"

(***************************************************************************)
(* check_schema_match on databases that differ in several ways at once:    *)
(* tables missing or extra, and matched tables whose columns, primary key  *)
(* and keys differ together.                                               *)
(***************************************************************************)
\* table bodies that differ from one another in columns, in primary key, in
\* keys, or in several of these
DifferingBodies ==
    {[columns |-> IntColumns(<<"x">>), primary_key_columns |-> <<0>>,
      primary_key_type |-> "explicit_primary_key", keys |-> <<>>],
     [columns |-> IntColumns(<<"x", "y">>), primary_key_columns |-> <<0>>,
      primary_key_type |-> "explicit_primary_key", keys |-> <<>>],
     [columns |-> IntColumns(<<"x">>), primary_key_columns |-> <<>>,
      primary_key_type |-> "no_available_key", keys |-> <<>>],
     [columns |-> IntColumns(<<"x">>), primary_key_columns |-> <<>>,
      primary_key_type |-> "no_available_key",
      keys |-> <<Key("k", "standard_key", <<0>>)>>]}

\* the first MaxTables table names
FirstTableNames == {n \in TableNames : CharCode(n) - CharCode("a") < MaxTables}

Ascending(names) == \A i \in 1..(Len(names) - 1) : string_less(names[i], names[i + 1])

Descending(names) == \A i \in 1..(Len(names) - 1) : string_less(names[i + 1], names[i])

\* databases whose tables carry the given name sequences, with any bodies
DifferingDatabases(nameSeqs) ==
    {Database([i \in 1..Len(names) |-> WithBody(names[i], bodies[i])]) :
        <<names, bodies>> \in
            UNION {{<<n, b>> : b \in [1..Len(n) -> DifferingBodies]} : n \in nameSeqs}}

\* the from tables arrive in ascending name order, the to tables in
\* descending order; tables are filtered by ignore_tables only
InitFailFast ==
    /\ from_database \in DifferingDatabases(
           {n \in DistinctSeqs(FirstTableNames, MaxTables) : Ascending(n)})
    /\ to_database \in DifferingDatabases(
           {n \in DistinctSeqs(FirstTableNames, MaxTables) : Descending(n)})
    /\ ignore_tables \in SubsetsUpTo(FirstTableNames, MaxFilter)
    /\ only_tables = {}
    /\ InitWalk

SpecFailFast == InitFailFast /\ [][Next]_vars

\* what is wrong with the unfiltered table name n, each kind of difference
\* judged on its own: the message for it, columns before primary key before
\* keys, or NoMismatch
Discrepancy(n) ==
    IF n \notin UnfilteredToNames THEN "Missing table " \o n
    ELSE IF n \notin UnfilteredFromNames THEN "Extra table " \o n
    ELSE LET from_t == Named(from_database.tables, n)
             to_t == Named(to_database.tables, n)
             columns_differ ==
                 check_columns_match(from_t, from_t.columns, to_t.columns)
             primary_key_differs ==
                 check_primary_key_matches(from_t, from_t.primary_key_columns,
                                           to_t.primary_key_columns)
             keys_differ == check_keys_match(from_t, from_t.keys, to_t.keys)
         IN  IF columns_differ # NoMismatch THEN columns_differ
             ELSE IF primary_key_differs # NoMismatch THEN primary_key_differs
             ELSE keys_differ

DiscrepantNames ==
    {n \in UnfilteredFromNames \cup UnfilteredToNames : Discrepancy(n) # NoMismatch}

\* the walk is inside check_table_match of the pair under the table cursors
InTableCheck ==
    pc \in {"check_table_match", "check_columns_match", "check_primary_key_matches",
            "check_keys_match", "check_keys_loop"}

\* C20: check_schema_match ends with the one schema_mismatch of the first
\* discrepancy in ascending order of the unfiltered table names (columns
\* before primary key before keys within a matched pair) or returns when
\* there is none; no table after the first discrepant one is ever under
\* check_table_match; and nothing runs once the mismatch is thrown
C20_FailFastOrder ==
    /\ [](Finished =>
              IF DiscrepantNames = {}
              THEN pc = "returned" /\ mismatch = NoMismatch
              ELSE pc = "thrown" /\ mismatch = Discrepancy(Smallest(DiscrepantNames)))
    /\ [](~Finished => mismatch = NoMismatch)
    /\ []((InTableCheck /\ DiscrepantNames # {}) =>
              /\ from_tables[from_table].name = to_tables[to_table].name
              /\ ~string_less(Smallest(DiscrepantNames), from_tables[from_table].name))
    /\ [][pc # "thrown"]_vars

\* the table a differs in columns, primary key and keys, the table b after
\* it differs too, and the column mismatch of a was thrown
C20_Witness ==
    /\ pc = "thrown"
    /\ mismatch = "Missing column y on table a"
    /\ ignore_tables = {}
    /\ {"a", "b"} \subseteq DiscrepantNames
    /\ LET from_t == Named(from_database.tables, "a")
           to_t == Named(to_database.tables, "a")
       IN  /\ check_primary_key_matches(from_t, from_t.primary_key_columns,
                                        to_t.primary_key_columns) # NoMismatch
           /\ check_keys_match(from_t, from_t.keys, to_t.keys) # NoMismatch

(***************************************************************************)
(* check_keys_match on key lists of mixed kinds.                           *)
(***************************************************************************)
\* the names of the keys of the one table of a database
KeyNamesOf(db) == NamesOf(db.tables[1].keys)

\* C21: check_keys_match throws "Extra key Y on table T" only when the from
\* table has no key named Y, and "Missing key X on table T" only when the to
\* table has no key named X; in particular a key that both sides have under
\* one name, whatever its kind on either side, is never reported as missing
\* or extra
C21_KeyPresenceTruthful ==
    pc = "thrown" =>
        \A name \in KeyNames :
            /\ mismatch = "Extra key " \o name \o " on table T"
                   => name \notin KeyNamesOf(from_database)
            /\ mismatch = "Missing key " \o name \o " on table T"
                   => name \notin KeyNamesOf(to_database)

(***************************************************************************)
(* check_schema_match on sides of unequal length: tables without columns   *)
(* or keys against tables with one or two, databases without tables, and   *)
(* databases whose tables are all ignored.                                 *)
(***************************************************************************)
\* table bodies with no, one or two columns and no, one or two keys
UnequalBodies ==
    {[columns |-> <<>>, primary_key_columns |-> <<>>,
      primary_key_type |-> "no_available_key", keys |-> <<>>],
     [columns |-> IntColumns(<<"x">>), primary_key_columns |-> <<>>,
      primary_key_type |-> "no_available_key", keys |-> <<>>],
     [columns |-> IntColumns(<<"x", "y">>), primary_key_columns |-> <<>>,
      primary_key_type |-> "no_available_key",
      keys |-> <<Key("k", "standard_key", <<0>>)>>],
     [columns |-> IntColumns(<<"x", "y">>), primary_key_columns |-> <<>>,
      primary_key_type |-> "no_available_key",
      keys |-> <<Key("k", "standard_key", <<0>>), Key("l", "standard_key", <<0>>)>>]}

UnequalDatabases(nameSeqs) ==
    {Database([i \in 1..Len(names) |-> WithBody(names[i], bodies[i])]) :
        <<names, bodies>> \in
            UNION {{<<n, b>> : b \in [1..Len(n) -> UnequalBodies]} : n \in nameSeqs}}

InitUnequal ==
    /\ from_database \in UnequalDatabases(
           {n \in DistinctSeqs(FirstTableNames, MaxTables) : Ascending(n)})
    /\ to_database \in UnequalDatabases(
           {n \in DistinctSeqs(FirstTableNames, MaxTables) : Descending(n)})
    /\ ignore_tables \in SubsetsUpTo(FirstTableNames, MaxFilter)
    /\ only_tables = {}
    /\ InitWalk

SpecUnequal == InitUnequal /\ [][Next]_vars

\* the table cursors are set: check_tables_match has sorted its copies
InTablesWalk == pc = "check_tables_match" \/ InTableCheck

\* the next iteration of check_columns_match's loop reads *to_column outside
\* a test of to_column against end(): the first if did not match and find_if
\* found the from column among the to columns at or after the cursor
ReadsToColumn ==
    /\ pc = "check_columns_match"
    /\ from_column # end(from_tables[from_table].columns)
    /\ LET from_columns == from_tables[from_table].columns
           to_columns == to_tables[to_table].columns
       IN  /\ ~(/\ to_column # end(to_columns)
                /\ to_columns[to_column].name = from_columns[from_column].name)
           /\ find_if(to_columns, to_column, from_columns[from_column].name)
                  # end(to_columns)

\* C22: in the walks over columns, keys and tables no cursor is ever past
\* the end of its sequence; check_table_match is applied only to table
\* cursors that are both before the end; *to_column is read outside an end
\* test only when to_column is before the end; and a step that moves a
\* cursor finds it before the end
C22_CursorSafety ==
    /\ [](InTablesWalk =>
              /\ from_table \in 1..end(from_tables)
              /\ to_table \in 1..end(to_tables))
    /\ [](InTableCheck =>
              /\ from_table # end(from_tables)
              /\ to_table # end(to_tables))
    /\ [](pc = "check_columns_match" =>
              /\ from_column \in 1..end(from_tables[from_table].columns)
              /\ to_column \in 1..end(to_tables[to_table].columns))
    /\ [](ReadsToColumn => to_column # end(to_tables[to_table].columns))
    /\ [](pc = "check_keys_loop" =>
              /\ from_key \in 1..end(from_keys)
              /\ to_key \in 1..end(to_keys))
    /\ [][/\ (pc = "check_columns_match" /\ to_column' # to_column) =>
                  to_column # end(to_tables[to_table].columns)
          /\ (pc = "check_columns_match" /\ from_column' # from_column) =>
                  from_column # end(from_tables[from_table].columns)
          /\ (pc = "check_keys_loop" /\ to_key' # to_key) => to_key # end(to_keys)
          /\ (pc = "check_keys_loop" /\ from_key' # from_key) => from_key # end(from_keys)
          /\ (pc = "check_keys_loop" /\ to_table' # to_table) => to_table # end(to_tables)
          /\ (pc = "check_keys_loop" /\ from_table' # from_table) =>
                  from_table # end(from_tables)]_vars

\* the to keys ran out before the from keys: after an ignored table was
\* skipped and the two columns and the key k of table b were stepped over,
\* the to key cursor stood at the end and the from key l was reported missing
C22_Witness ==
    /\ pc = "thrown"
    /\ mismatch = "Missing key l on table b"
    /\ ignore_tables = {"a"}
    /\ from_table = 2
    /\ from_column = end(from_tables[from_table].columns)
    /\ to_column = end(to_tables[to_table].columns)
    /\ to_column = 3
    /\ from_key = 2
    /\ to_key = 2
    /\ to_key = end(to_keys)
    /\ from_key # end(from_keys)

(***************************************************************************)
(* PostgreSQLRes and PostgreSQLRow: how the cells of a result are packed,  *)
(* and populate_database_schema, which fills the type map the conversions  *)
(* are chosen from.  A PostgreSQLRes holds a reference to the client's     *)
(* type map, so conversion_for_type reads type_map as it is when called.   *)
(***************************************************************************)
BOOLOID == 16
BYTEAOID == 17
CHAROID == 18
INT2OID == 21
INT4OID == 23
INT8OID == 20
TEXTOID == 25

\* PostgreSQLRes::conversion_for_type
conversion_for_type(typid) ==
    IF typid = BOOLOID THEN "encode_bool"
    ELSE IF typid \in {INT2OID, INT4OID, INT8OID} THEN "encode_sint"
    ELSE IF typid = BYTEAOID THEN "encode_bytea"
    ELSE IF typid \in {CHAROID, TEXTOID} THEN "encode_raw"
    ELSE IF typid \in type_map.geometry THEN "encode_geom"
    ELSE "encode_raw"

\* PostgreSQLRes::populate_conversions
populate_conversions(r) ==
    [r EXCEPT !.conversions = [i \in 1..Len(r.ftype) |-> conversion_for_type(r.ftype[i])]]

\* mutant of conversions_empty: conversion_for populates the conversions on
\* every call
conversions_never_kept(r) == TRUE

\* conversions.empty(), the test of conversion_for
conversions_empty(r) == r.conversions = NoConversions

\* query(sql, row_handler) of a handler that packs each row with
\* pack_row_into: the server answers with a status and the result
Query ==
    /\ pg_pc = "idle"
    /\ Len(executed) < MaxStatements
    /\ \E status \in {"PGRES_TUPLES_OK", "PGRES_FATAL_ERROR"}, r \in
              {[ftype |-> d[1], isnull |-> d[2], conversions |-> NoConversions] :
                   d \in pg_input.results} :
          /\ executed' = Append(executed, [sql |-> "SELECT * FROM t", status |-> status])
          /\ IF status # "PGRES_TUPLES_OK"
             THEN /\ throw(sql_error("SELECT * FROM t"))
                  /\ UNCHANGED <<res, packer, populated>>
             ELSE /\ res' = r
                  /\ packer' = <<>>
                  /\ populated' = <<>>
                  /\ pg_pc' = "query"
                  /\ UNCHANGED pg_error
    /\ row_number' = 0
    /\ column_number' = 0
    /\ UNCHANGED <<walkVars, endpointVars, pg_input, database, pg_table, rows, result,
                   type_map, collected>>

\* PostgreSQLRow::pack_column_into for the next column of the row the
\* handler was given; conversion_for builds the conversions when they are
\* empty
PackColumnInto ==
    /\ pg_pc = "query"
    /\ row_number < Len(res.isnull)
    /\ column_number < Len(res.ftype)
    /\ IF res.isnull[row_number + 1][column_number + 1]
       THEN /\ packer' = Append(packer, [row |-> row_number, column |-> column_number,
                                         packed |-> "nullptr"])
            /\ UNCHANGED <<res, populated>>
       ELSE /\ res' = IF conversions_empty(res) THEN populate_conversions(res) ELSE res
            /\ populated' = IF conversions_empty(res)
                            THEN Append(populated, collected) ELSE populated
            /\ packer' = Append(packer, [row |-> row_number, column |-> column_number,
                                         packed |-> res'.conversions[column_number + 1]])
    /\ column_number' = column_number + 1
    /\ UNCHANGED <<walkVars, endpointVars, adapterVars, type_map, row_number, collected>>

\* pack_row_into is through with the row: query() goes to the next row, or
\* returns after the last, which destroys the PostgreSQLRes
QueryNextRow ==
    /\ pg_pc = "query"
    /\ row_number < Len(res.isnull) => column_number = Len(res.ftype)
    /\ IF row_number < Len(res.isnull)
       THEN /\ row_number' = row_number + 1
            /\ UNCHANGED <<pg_pc, res>>
       ELSE /\ pg_pc' = "idle"
            /\ res' = NoRes
            /\ UNCHANGED row_number
    /\ column_number' = 0
    /\ UNCHANGED <<walkVars, endpointVars, pg_input, database, pg_table, rows, executed,
                   result, pg_error, type_map, packer, collected, populated>>

\* populate_database_schema(database), called between two operations or by
\* the row handler before it packs its row: the query for the tables, each
\* row given to PostgreSQLTableLister
PopulateDatabaseSchema ==
    /\ \/ pg_pc = "idle"
       \/ pg_pc = "query" /\ row_number < Len(res.isnull) /\ column_number = 0
    /\ Len(executed) + 1 < MaxStatements
    /\ \E status \in {"PGRES_TUPLES_OK", "PGRES_FATAL_ERROR"} :
          /\ executed' = Append(executed, [sql |-> "SELECT pg_class.relname ...",
                                           status |-> status])
          /\ IF status # "PGRES_TUPLES_OK"
             THEN throw(sql_error("SELECT pg_class.relname ...")) /\ UNCHANGED database
             ELSE /\ database' = [database EXCEPT !.tables = @ \o pg_input.tables]
                  /\ pg_pc' = "type_map_query"
                  /\ UNCHANGED pg_error
    /\ UNCHANGED <<walkVars, endpointVars, resVars, pg_input, pg_table, rows, result>>

\* populate_database_schema: the query for the types named geometry
TypeMapQuery ==
    /\ pg_pc = "type_map_query"
    /\ \E status \in {"PGRES_TUPLES_OK", "PGRES_FATAL_ERROR"} :
          /\ executed' = Append(executed, [sql |-> "SELECT pg_type.oid, pg_type.typname ...",
                                           status |-> status])
          /\ IF status # "PGRES_TUPLES_OK"
             THEN /\ throw(sql_error("SELECT pg_type.oid, pg_type.typname ..."))
                  /\ UNCHANGED rows
             ELSE /\ rows' = pg_input.pg_type
                  /\ pg_pc' = "type_map_collector"
                  /\ UNCHANGED pg_error
    /\ UNCHANGED <<walkVars, endpointVars, resVars, pg_input, database, pg_table, result>>

\* PostgreSQLTypeMapCollector::operator() called with the next row; after
\* the last row populate_database_schema returns to where it was called
TypeMapCollector ==
    /\ pg_pc = "type_map_collector"
    /\ IF rows # <<>>
       THEN /\ type_map' = IF Head(rows).typname = "geometry"
                           THEN [type_map EXCEPT !.geometry = @ \cup {Head(rows).oid}]
                           ELSE type_map
            /\ rows' = Tail(rows)
            /\ UNCHANGED <<pg_pc, collected>>
       ELSE /\ collected' = TRUE
            /\ pg_pc' = IF res = NoRes THEN "idle" ELSE "query"
            /\ UNCHANGED <<type_map, rows>>
    /\ UNCHANGED <<walkVars, endpointVars, pg_input, database, pg_table, executed, result,
                   pg_error, res, row_number, column_number, packer, populated>>

NextResult ==
    \/ Query
    \/ PackColumnInto
    \/ QueryNextRow
    \/ PopulateDatabaseSchema
    \/ TypeMapQuery
    \/ TypeMapCollector

\* what the type-map query answers: nothing without PostGIS, else a row per
\* type named geometry, under the OID it was given when PostGIS was installed
TypeRows ==
    {<<>>, <<[oid |-> 16385, typname |-> "geometry"]>>,
     <<[oid |-> 16385, typname |-> "geometry"], [oid |-> 24601, typname |-> "geometry"]>>}

\* the results of the queries: the type OIDs of the columns (built-in types,
\* the geometry types and the type 16999 of another extension) and, row by
\* row, which cells are NULL
ResultDescriptors ==
    {<<<<16385>>, <<<<FALSE>>>>>>,
     <<<<16385>>, <<<<TRUE>>, <<FALSE>>>>>>,
     <<<<16385>>, <<<<FALSE>>, <<FALSE>>>>>>,
     <<<<TEXTOID, 24601>>, <<<<FALSE, FALSE>>>>>>,
     <<<<24601, INT4OID>>, <<<<TRUE, FALSE>>, <<FALSE, TRUE>>>>>>,
     <<<<16999, BYTEAOID>>, <<<<FALSE, FALSE>>>>>>,
     <<<<BOOLOID>>, <<>>>>}

\* a client just constructed, on a database with one table and with or
\* without PostGIS
InitResult ==
    /\ NoWalk
    /\ NoEndpoint
    /\ NoResult
    /\ pg_pc = "idle"
    /\ \E pg_type \in TypeRows :
          pg_input = [tables |-> <<Table("t", <<>>, <<>>, "no_available_key", <<>>)>>,
                      pg_type |-> pg_type, results |-> ResultDescriptors]
    /\ database = Database(<<>>)
    /\ pg_table = Table("", <<>>, <<>>, "no_available_key", <<>>)
    /\ rows = <<>>
    /\ executed = <<>>
    /\ result = ""
    /\ pg_error = ""

SpecResult == InitResult /\ [][NextResult]_vars

\* the OIDs of the types named geometry in the database of the client
GeometryOids ==
    {pg_input.pg_type[i].oid : i \in {j \in 1..Len(pg_input.pg_type) :
                                          pg_input.pg_type[j].typname = "geometry"}}

\* what was packed for the non-NULL cells of columns of a geometry type
PackedGeometryCells ==
    {packer[i] : i \in {j \in 1..Len(packer) :
                            /\ packer[j].packed # "nullptr"
                            /\ res.ftype[packer[j].column + 1] \in GeometryOids}}

\* C23: while a result is open, each of its non-NULL cells of a geometry
\* type was packed with encode_geom if a type-map query of
\* populate_database_schema had completed when the conversions of the result
\* were built, and with encode_raw if none had; the conversions are built at
\* most once per result, and once built they do not change
C23_GeometryRecognition ==
    /\ [](pg_pc = "query" =>
              /\ Len(populated) <= 1
              /\ \A cell \in PackedGeometryCells :
                    /\ Len(populated) = 1
                    /\ cell.packed = IF populated[1] THEN "encode_geom" ELSE "encode_raw")
    /\ [][(pg_pc = "query" /\ pg_pc' # "idle" /\ res.conversions # NoConversions)
              => res'.conversions = res.conversions]_vars

\* after a first query populate_database_schema collected the OID 16385, and
\* the query made then built its conversions and packed its geometry cell
\* with encode_geom
C23_Witness ==
    /\ pg_pc = "query"
    /\ Len(executed) = 4
    /\ executed[1].sql = "SELECT * FROM t"
    /\ executed[1].status = "PGRES_TUPLES_OK"
    /\ executed[2].sql = "SELECT pg_class.relname ..."
    /\ executed[4].sql = "SELECT * FROM t"
    /\ res.ftype = <<16385>>
    /\ 16385 \in type_map.geometry
    /\ populated = <<TRUE>>
    /\ packer = <<[row |-> 0, column |-> 0, packed |-> "encode_geom"]>>

====
